---------------------------- MODULE Spec2Model ----------------------------
(***************************************************************************)
(* radarbase: a single-file key-value store.  A copy-on-write binary tree  *)
(* of pages (src/src/binarytree.rs) on top of a bump-allocating page       *)
(* manager (src/src/page_manager.rs), write transactions that stage their  *)
(* changes and read transactions pinned to a root page                      *)
(* (src/src/transactions.rs).                                               *)
(*                                                                          *)
(* Byte strings (keys, values) are sequences of small naturals.  An         *)
(* Option<T> is the empty sequence (None) or a one-element sequence.        *)
(***************************************************************************)
EXTENDS Integers, Sequences, FiniteSets, TLC

VARIABLES
    pages,            \* the mapping: pages[n] is the content of page n (n >= 1)
    next_free_page,   \* PageManager.next_free_page
    root,             \* the root page number published in the metadata page
    wtxn,             \* the outstanding WriteTransaction (one writer at a time)
    rtxn,             \* a ReadOnlyTransaction
    rtxn_view,        \* history: what rtxn observed when it was created
    committed,        \* history: the abstract map, (table, key) -> Option value
    last,             \* history: how the last write transaction ended
    commits,          \* history: the number of commits so far
    iter,             \* a BinarytreeRangeIter
    yielded,          \* history: what iter.next() returned so far
    hdr,              \* the mapping: magic and next-free field of page 0
    disk,             \* the file: what a reopen after a halt would map
    pc,               \* where Database::open / commit stands, with its history
    pm,               \* a PageManager on its own, with its last call
    oplog,            \* history: the calls made on wtxn, in order
    btree,            \* the in-RAM BTree<K, V>
    bt_hist,          \* history: the calls made on btree and its abstract map
    dir,              \* the table directory, with the last open_table call
    leaf              \* the bytes of a page a leaf is written to, with that write

dbVars   == <<pages, next_free_page, root>>
txnVars  == <<wtxn, rtxn, rtxn_view, committed, last, commits>>
iterVars == <<iter, yielded>>
fileVars == <<hdr, disk, pc>>
restVars == <<fileVars, pm, oplog, btree, bt_hist, dir, leaf>>
vars     == <<pages, next_free_page, root, wtxn, rtxn, rtxn_view, committed, last, commits,
             iter, yielded, hdr, disk, pc, pm, oplog, btree, bt_hist, dir,
             leaf>>

----------------------------------------------------------------------------
(* Bounds of the model *)

\* commits (successful or failed) in one behaviour of Spec
MaxCommits == 2
\* staged inserts and removes in one write transaction
MaxStaged == 2
\* tree_insert / tree_delete calls after the initial build in SpecRange
MaxTreeOps == 1
\* entries of the batch the initial tree of SpecRange is built from
MaxEntries == 4

\* table ids handed out by get_or_create_table
Tables == {1, 2}
\* key byte strings, the empty key included
Keys == {<<>>, <<1>>, <<2>>}
\* value byte strings
Values == {<<0>>, <<1>>}

----------------------------------------------------------------------------
(* Program constants *)

LEAF == 1
INTERNAL == 2
\* the metadata page; Option<u64>::None of a root is modelled by this number,
\* which no tree page can have
DB_METADATA_PAGE == 0
NoRoot == DB_METADATA_PAGE

None == <<>>
Some(x) == <<x>>

----------------------------------------------------------------------------
(* Ordering of byte slices and of (table_id, key) tuples: Rust's Ord for    *)
(* &[u8] (lexicographic, a proper prefix is smaller) and for tuples.        *)

Min(a, b) == IF a <= b THEN a ELSE b

BytesLess(a, b) ==
    \E i \in 1..(Min(Len(a), Len(b)) + 1) :
        /\ \A j \in 1..(i - 1) : a[j] = b[j]
        /\ \/ (i > Len(a) /\ i <= Len(b))
           \/ (i <= Len(a) /\ i <= Len(b) /\ a[i] < b[i])

BytesLeq(a, b) == a = b \/ BytesLess(a, b)

\* (t1, k1) < (t2, k2)
TableKeyLess(t1, k1, t2, k2) == t1 < t2 \/ (t1 = t2 /\ BytesLess(k1, k2))
\* mutant: the comparison with a pivot is strict
TableKeyLeq_strict(t1, k1, t2, k2) == t1 < t2 \/ (t1 = t2 /\ BytesLess(k1, k2))
\* (t1, k1) <= (t2, k2)
TableKeyLeq(t1, k1, t2, k2) == t1 < t2 \/ (t1 = t2 /\ BytesLeq(k1, k2))

\* (table, key, value) tuples as Vec::sort orders them
PairLess(a, b) ==
    \/ TableKeyLess(a.table_id, a.key, b.table_id, b.key)
    \/ /\ a.table_id = b.table_id
       /\ a.key = b.key
       /\ BytesLess(a.value, b.value)

Entry(t, k, v) == [table_id |-> t, key |-> k, value |-> v]

----------------------------------------------------------------------------
(* Node codec.  A leaf page holds the bytes of a lesser entry and of a      *)
(* greater entry; an absent greater entry is written as key_len = 0 alone,  *)
(* over the zero bytes of a fresh page.                                     *)

\* LeafBuilder::write_greater(None): write_key(&[]) on a fresh page
AbsentEntry == Entry(0, <<>>, <<>>)

\* LeafBuilder::new + write_lesser + write_greater
LeafPage(lesser, greater) ==
    [type |-> LEAF,
     lesser |-> lesser,
     greater |-> IF greater = None THEN AbsentEntry ELSE greater[1]]

\* mutant: the two child pointers are stored in each other's place
InternalPage_children_swapped(t, k, lte, gt) ==
    [type |-> INTERNAL, table_id |-> t, key |-> k, lte_page |-> gt, gt_page |-> lte]

\* InternalBuilder::new + write_table_and_key + write_lte_page + write_gt_page
InternalPage(t, k, lte, gt) ==
    [type |-> INTERNAL, table_id |-> t, key |-> k, lte_page |-> lte, gt_page |-> gt]

\* LeafAccessor::lesser
lesser(page) == page.lesser

\* LeafAccessor::greater: "absent" is decided by key_len alone
greater(page) == IF Len(page.greater.key) = 0 THEN None ELSE Some(page.greater)

\* mutant: the page handed out is the last one in use
allocate_hands_out_page_in_use(pgs, content) ==
    IF pgs = <<>> THEN [pages |-> <<content>>, page |-> 1]
    ELSE [pages |-> [pgs EXCEPT ![Len(pgs)] = content], page |-> Len(pgs)]

\* PageManager::allocate followed by the write of the page: the page gets the
\* number next_free_page, which is then incremented
allocate(pgs, content) == [pages |-> Append(pgs, content), page |-> Len(pgs) + 1]

----------------------------------------------------------------------------
(* In-memory nodes and the bottom-up builder *)

\* Node::Leaf(left, right), right an Option
Leaf(left, right) == [kind |-> "Leaf", left |-> left, right |-> right]
\* Node::Internal(left, table, key, right)
Internal(left, t, k, right) ==
    [kind |-> "Internal", left |-> left, table_id |-> t, key |-> k, right |-> right]
\* the outcome of a build that panics (empty batch, duplicate key in a chunk)
Panic == [kind |-> "Panic"]

RECURSIVE get_max_key(_)

\* mutant: the key of a leaf is the key of its first entry
get_max_key_of_first_entry(node) ==
    IF node.kind = "Leaf"
    THEN [table_id |-> node.left.table_id, key |-> node.left.key]
    ELSE get_max_key(node.right)

\* Node::get_max_key
get_max_key(node) ==
    IF node.kind = "Leaf"
    THEN IF node.right # None
         THEN [table_id |-> node.right[1].table_id, key |-> node.right[1].key]
         ELSE [table_id |-> node.left.table_id, key |-> node.left.key]
    ELSE get_max_key(node.right)

\* Node::to_bytes: writes the node and its subtrees to freshly allocated
\* pages, children before parents; returns the pages and the node's page
RECURSIVE to_bytes(_, _)
to_bytes(node, pgs) ==
    IF node.kind = "Leaf"
    THEN allocate(pgs, LeafPage(node.left, node.right))
    ELSE LET l == to_bytes(node.left, pgs)
             r == to_bytes(node.right, l.pages)
         IN  allocate(r.pages, InternalPage(node.table_id, node.key, l.page, r.page))

\* self.pairs.sort(): insertion of e into a sorted sequence
RECURSIVE SortedInsert(_, _)
SortedInsert(e, s) ==
    IF s = <<>> THEN <<e>>
    ELSE IF PairLess(s[1], e) THEN <<s[1]>> \o SortedInsert(e, Tail(s))
    ELSE <<e>> \o s

\* mutant: the pairs are left in the order they were added
SortPairs_keeps_order(s) == s

RECURSIVE SortPairs(_)
SortPairs(s) == IF s = <<>> THEN <<>> ELSE SortedInsert(s[1], SortPairs(Tail(s)))

\* for group in self.pairs.chunks(2): the leaves, or <<Panic>> when the two
\* entries of one chunk have the same (table, key)
RECURSIVE MakeLeaves(_)
MakeLeaves(sorted) ==
    IF sorted = <<>> THEN <<>>
    ELSE IF Len(sorted) = 1 THEN <<Leaf(sorted[1], None)>>
    ELSE IF sorted[1].table_id = sorted[2].table_id /\ sorted[1].key = sorted[2].key
         THEN <<Panic>>
    ELSE LET rest == MakeLeaves(Tail(Tail(sorted)))
         IN  IF rest # <<>> /\ rest[1].kind = "Panic" THEN <<Panic>>
             ELSE <<Leaf(sorted[1], Some(sorted[2]))>> \o rest

\* one pass of the while loop: adjacent nodes are joined under an internal
\* node keyed by the maximum key of the left one; an odd last node is kept
RECURSIVE CombineLevel(_)
CombineLevel(bottom) ==
    IF Len(bottom) <= 1 THEN bottom
    ELSE LET mk == get_max_key(bottom[1])
         IN  <<Internal(bottom[1], mk.table_id, mk.key, bottom[2])>>
                 \o CombineLevel(Tail(Tail(bottom)))

RECURSIVE CombineAll(_)
CombineAll(bottom) == IF Len(bottom) <= 1 THEN bottom[1] ELSE CombineAll(CombineLevel(bottom))

\* BinarytreeBuilder::build on the added pairs
build(pairs) ==
    IF pairs = <<>> THEN Panic
    ELSE LET leaves == MakeLeaves(SortPairs(pairs))
         IN  IF leaves[1].kind = "Panic" THEN Panic ELSE CombineAll(leaves)

----------------------------------------------------------------------------
(* Persistent tree operations.  Each returns the pages after its            *)
(* allocations and a page number; Option<u64>::None is NoRoot.              *)

\* mutant: the table of the entry is not compared
SameKey_ignores_table(t, k, e) == k = e.key

SameKey(t, k, e) == t = e.table_id /\ k = e.key

\* lookup_in_raw: the value found for (table, query) under page, as an Option
RECURSIVE lookup_in_raw(_, _, _, _)
lookup_in_raw(pgs, page, table, query) ==
    LET node == pgs[page] IN
    IF node.type = LEAF
    THEN IF TableKeyLess(table, query, lesser(node).table_id, lesser(node).key)
         THEN None
         ELSE IF SameKey(table, query, lesser(node))
         THEN Some(lesser(node).value)
         ELSE IF greater(node) # None /\ SameKey(table, query, greater(node)[1])
              THEN Some(greater(node)[1].value)
              ELSE None
    ELSE IF TableKeyLeq(table, query, node.table_id, node.key)
         THEN lookup_in_raw(pgs, node.lte_page, table, query)
         ELSE lookup_in_raw(pgs, node.gt_page, table, query)

\* tree_insert
RECURSIVE tree_insert(_, _, _, _, _)
tree_insert(pgs, page, table, key, value) ==
    LET node == pgs[page] IN
    IF node.type = LEAF
    THEN LET p1 == <<Entry(table, key, value)>>
             p2 == IF ~SameKey(table, key, lesser(node))
                   THEN Append(p1, lesser(node)) ELSE p1
             p3 == IF greater(node) # None /\ ~SameKey(table, key, greater(node)[1])
                   THEN Append(p2, greater(node)[1]) ELSE p2
         IN  to_bytes(build(p3), pgs)
    ELSE IF TableKeyLeq(table, key, node.table_id, node.key)
         THEN LET l == tree_insert(pgs, node.lte_page, table, key, value)
              IN  allocate(l.pages,
                           InternalPage(node.table_id, node.key, l.page, node.gt_page))
         ELSE LET r == tree_insert(pgs, node.gt_page, table, key, value)
              IN  allocate(r.pages,
                           InternalPage(node.table_id, node.key, node.lte_page, r.page))

RECURSIVE tree_delete(_, _, _, _)

\* mutant: an internal node whose child changed is rewritten in its own page
tree_delete_in_place(pgs, page, table, key) ==
    LET node == pgs[page] IN
    IF node.type = LEAF
    THEN IF greater(node) # None
         THEN IF ~SameKey(table, key, lesser(node)) /\ ~SameKey(table, key, greater(node)[1])
              THEN [pages |-> pgs, page |-> page]
              ELSE IF SameKey(table, key, lesser(node))
                   THEN to_bytes(Leaf(greater(node)[1], None), pgs)
                   ELSE to_bytes(Leaf(lesser(node), None), pgs)
         ELSE IF SameKey(table, key, lesser(node))
              THEN [pages |-> pgs, page |-> NoRoot]
              ELSE [pages |-> pgs, page |-> page]
    ELSE IF TableKeyLeq(table, key, node.table_id, node.key)
         THEN LET l == tree_delete(pgs, node.lte_page, table, key) IN
              IF l.page = NoRoot THEN [pages |-> l.pages, page |-> node.gt_page]
              ELSE IF l.page = node.lte_page THEN [pages |-> l.pages, page |-> page]
              ELSE [pages |-> [l.pages EXCEPT ![page] =
                                  InternalPage(node.table_id, node.key, l.page, node.gt_page)],
                    page |-> page]
         ELSE LET r == tree_delete(pgs, node.gt_page, table, key) IN
              IF r.page = NoRoot THEN [pages |-> r.pages, page |-> node.lte_page]
              ELSE IF r.page = node.gt_page THEN [pages |-> r.pages, page |-> page]
              ELSE [pages |-> [r.pages EXCEPT ![page] =
                                  InternalPage(node.table_id, node.key, node.lte_page, r.page)],
                    page |-> page]

\* tree_delete; page = NoRoot in the result when the subtree became empty
tree_delete(pgs, page, table, key) ==
    LET node == pgs[page] IN
    IF node.type = LEAF
    THEN IF greater(node) # None
         THEN IF ~SameKey(table, key, lesser(node)) /\ ~SameKey(table, key, greater(node)[1])
              THEN [pages |-> pgs, page |-> page]
              ELSE IF SameKey(table, key, lesser(node))
                   THEN to_bytes(Leaf(greater(node)[1], None), pgs)
                   ELSE to_bytes(Leaf(lesser(node), None), pgs)
         ELSE IF SameKey(table, key, lesser(node))
              THEN [pages |-> pgs, page |-> NoRoot]
              ELSE [pages |-> pgs, page |-> page]
    ELSE IF TableKeyLeq(table, key, node.table_id, node.key)
         THEN LET l == tree_delete(pgs, node.lte_page, table, key) IN
              IF l.page = NoRoot THEN [pages |-> l.pages, page |-> node.gt_page]
              ELSE IF l.page = node.lte_page THEN [pages |-> l.pages, page |-> page]
              ELSE allocate(l.pages,
                            InternalPage(node.table_id, node.key, l.page, node.gt_page))
         ELSE LET r == tree_delete(pgs, node.gt_page, table, key) IN
              IF r.page = NoRoot THEN [pages |-> r.pages, page |-> node.lte_page]
              ELSE IF r.page = node.gt_page THEN [pages |-> r.pages, page |-> page]
              ELSE allocate(r.pages,
                            InternalPage(node.table_id, node.key, node.lte_page, r.page))

----------------------------------------------------------------------------
(* Range iteration: RangeIterState and BinarytreeRangeIter *)

\* a RangeIterState; parent is an Option; InitialState has no parent
IterState(state, page, parent, reversed) ==
    [state |-> state, page |-> page, parent |-> parent, reversed |-> reversed]

InitialState(page, reversed) == IterState("InitialState", page, None, reversed)

\* the first state on entering the page child in forward order
ForwardEnter(pgs, child, parent) ==
    IF pgs[child].type = LEAF
    THEN IterState("LeafLeft", child, parent, FALSE)
    ELSE IterState("InternalLeft", child, parent, FALSE)

\* the first state on entering the page child in backward order
BackwardEnter(pgs, child, parent) ==
    IF pgs[child].type = LEAF
    THEN IterState("LeafRight", child, parent, TRUE)
    ELSE IterState("InternalRight", child, parent, TRUE)

\* mutant: on the way forward an internal page enters its left child again
forward_next_reenters_left(st, pgs) ==
    CASE st.state = "InitialState" -> Some(ForwardEnter(pgs, st.page, None))
      [] st.state = "LeafLeft" -> Some(IterState("LeafRight", st.page, st.parent, FALSE))
      [] st.state = "LeafRight" -> st.parent
      [] st.state = "InternalLeft" ->
            Some(ForwardEnter(pgs, pgs[st.page].lte_page,
                              Some(IterState("InternalRight", st.page, st.parent, FALSE))))
      [] st.state = "InternalRight" ->
            Some(ForwardEnter(pgs, pgs[st.page].lte_page, st.parent))

\* RangeIterState::forward_next, an Option
forward_next(st, pgs) ==
    CASE st.state = "InitialState" -> Some(ForwardEnter(pgs, st.page, None))
      [] st.state = "LeafLeft" -> Some(IterState("LeafRight", st.page, st.parent, FALSE))
      [] st.state = "LeafRight" -> st.parent
      [] st.state = "InternalLeft" ->
            Some(ForwardEnter(pgs, pgs[st.page].lte_page,
                              Some(IterState("InternalRight", st.page, st.parent, FALSE))))
      [] st.state = "InternalRight" ->
            Some(ForwardEnter(pgs, pgs[st.page].gt_page, st.parent))

\* mutant: on the way back the lesser entry of a leaf is stepped over
backward_next_skips_lesser(st, pgs) ==
    CASE st.state = "InitialState" -> Some(BackwardEnter(pgs, st.page, None))
      [] st.state = "LeafLeft" -> st.parent
      [] st.state = "LeafRight" -> st.parent
      [] st.state = "InternalLeft" ->
            Some(BackwardEnter(pgs, pgs[st.page].lte_page, st.parent))
      [] st.state = "InternalRight" ->
            Some(BackwardEnter(pgs, pgs[st.page].gt_page,
                               Some(IterState("InternalLeft", st.page, st.parent, TRUE))))

\* RangeIterState::backward_next, an Option
backward_next(st, pgs) ==
    CASE st.state = "InitialState" -> Some(BackwardEnter(pgs, st.page, None))
      [] st.state = "LeafLeft" -> st.parent
      [] st.state = "LeafRight" -> Some(IterState("LeafLeft", st.page, st.parent, TRUE))
      [] st.state = "InternalLeft" ->
            Some(BackwardEnter(pgs, pgs[st.page].lte_page, st.parent))
      [] st.state = "InternalRight" ->
            Some(BackwardEnter(pgs, pgs[st.page].gt_page,
                               Some(IterState("InternalLeft", st.page, st.parent, TRUE))))

\* RangeIterState::next
state_next(st, pgs) == IF st.reversed THEN backward_next(st, pgs) ELSE forward_next(st, pgs)

\* RangeIterState::get_entry, an Option
get_entry(st, pgs) ==
    CASE st.state = "LeafLeft" -> Some(lesser(pgs[st.page]))
      [] st.state = "LeafRight" -> greater(pgs[st.page])
      [] OTHER -> None

\* std::ops::Bound
Unbounded == [kind |-> "Unbounded", key |-> <<>>]
Included(k) == [kind |-> "Included", key |-> k]
Excluded(k) == [kind |-> "Excluded", key |-> k]
Range(s, e) == [start |-> s, end |-> e]

\* RangeBounds::contains on byte slices
contains(range, item) ==
    /\ CASE range.start.kind = "Included" -> BytesLeq(range.start.key, item)
         [] range.start.kind = "Excluded" -> BytesLess(range.start.key, item)
         [] OTHER -> TRUE
    /\ CASE range.end.kind = "Included" -> BytesLeq(item, range.end.key)
         [] range.end.kind = "Excluded" -> BytesLess(item, range.end.key)
         [] OTHER -> TRUE

\* the early-termination test of BinarytreeRangeIter::next on an entry that
\* was not yielded: has the entry passed the far bound?
PassedFarBound(it, entry) ==
    IF it.reversed
    THEN CASE it.query_range.start.kind = "Included" ->
                TableKeyLess(entry.table_id, entry.key,
                             it.table_id, it.query_range.start.key)
           [] it.query_range.start.kind = "Excluded" ->
                TableKeyLeq(entry.table_id, entry.key,
                            it.table_id, it.query_range.start.key)
           [] OTHER -> FALSE
    ELSE CASE it.query_range.end.kind = "Included" ->
                TableKeyLess(it.table_id, it.query_range.end.key,
                             entry.table_id, entry.key)
           [] it.query_range.end.kind = "Excluded" ->
                TableKeyLeq(it.table_id, it.query_range.end.key,
                            entry.table_id, entry.key)
           [] OTHER -> FALSE

\* BinarytreeRangeIter::new / new_reversed
BinarytreeRangeIter_new(root_page, table, range, reversed) ==
    [last |-> IF root_page = NoRoot THEN None ELSE Some(InitialState(root_page, reversed)),
     table_id |-> table,
     query_range |-> range,
     reversed |-> reversed]

\* the loop of BinarytreeRangeIter::next from state: the new value of
\* self.last and the Option returned
RECURSIVE NextLoop(_, _, _)
NextLoop(it, state, pgs) ==
    LET new_state == state_next(state, pgs) IN
    IF new_state = None THEN [last |-> None, out |-> None]
    ELSE LET entry == get_entry(new_state[1], pgs) IN
         IF entry = None THEN NextLoop(it, new_state[1], pgs)
         ELSE IF it.table_id = entry[1].table_id /\ contains(it.query_range, entry[1].key)
              THEN [last |-> new_state, out |-> entry]
              ELSE IF PassedFarBound(it, entry[1])
                   THEN [last |-> None, out |-> None]
                   ELSE NextLoop(it, new_state[1], pgs)

\* BinarytreeRangeIter::next
iter_next(it, pgs) ==
    IF it.last = None THEN [last |-> None, out |-> None]
    ELSE NextLoop(it, it.last[1], pgs)

\* every entry the iterator yields until it returns None
RECURSIVE Drain(_, _)
Drain(it, pgs) ==
    LET r == iter_next(it, pgs) IN
    IF r.out = None THEN <<>>
    ELSE <<r.out[1]>> \o Drain([it EXCEPT !.last = r.last], pgs)

----------------------------------------------------------------------------
(* Storage: the tree-level operations the transactions call.  An Option<u64> *)
(* root is a page number or NoRoot.                                          *)

\* the orders in which a HashMap / HashSet holding the keys S can be iterated
Orders(S) ==
    {o \in [1..Cardinality(S) -> S] : \A i, j \in 1..Cardinality(S) : o[i] = o[j] => i = j}

\* Storage::get
Storage_get(pgs, table, key, root_page) ==
    IF root_page = NoRoot THEN None ELSE lookup_in_raw(pgs, root_page, table, key)

\* Storage::get_range / get_range_reversed run to the end
Storage_range(pgs, table, range, root_page, reversed) ==
    Drain(BinarytreeRangeIter_new(root_page, table, range, reversed), pgs)

\* Storage::len: a full traversal counting the entries of the table
Storage_len(pgs, table, root_page) ==
    Len(Storage_range(pgs, table, Range(Unbounded, Unbounded), root_page, FALSE))

\* every entry readable under page, in traversal order
RECURSIVE TreeEntries(_, _)
TreeEntries(pgs, page) ==
    IF page = NoRoot THEN <<>>
    ELSE LET node == pgs[page] IN
         IF node.type = LEAF
         THEN <<lesser(node)>> \o greater(node)
         ELSE TreeEntries(pgs, node.lte_page) \o TreeEntries(pgs, node.gt_page)

SelectNotStaged(entries, table, added) ==
    SelectSeq(entries, LAMBDA e : ~(e.table_id = table /\ e.key \in DOMAIN added))

\* Storage::bulk_insert, path (a): the current tree is iterated, the staged
\* pairs override, and the whole tree is rebuilt bottom-up
BulkRebuild(pgs, root_page, table, added) ==
    LET o == CHOOSE o \in Orders(DOMAIN added) : TRUE
        staged == [i \in 1..Len(o) |-> Entry(table, o[i], added[o[i]])]
        kept == SelectNotStaged(TreeEntries(pgs, root_page), table, added)
    IN  to_bytes(build(staged \o kept), pgs)

\* Storage::bulk_insert, path (b): one tree_insert per staged pair, in the
\* order o; the first insert into an empty database builds a single leaf
RECURSIVE BulkInsertEach(_, _, _, _, _)
BulkInsertEach(pgs, root_page, table, added, o) ==
    IF o = <<>> THEN [pages |-> pgs, page |-> root_page]
    ELSE LET r == IF root_page = NoRoot
                  THEN to_bytes(build(<<Entry(table, o[1], added[o[1]])>>), pgs)
                  ELSE tree_insert(pgs, root_page, table, o[1], added[o[1]])
         IN  BulkInsertEach(r.pages, r.page, table, added, Tail(o))

\* Storage::bulk_insert: every result the two paths and the iteration orders
\* of the staged map allow; an empty map changes nothing
bulk_insert(pgs, root_page, table, added) ==
    IF DOMAIN added = {} THEN {[pages |-> pgs, page |-> root_page]}
    ELSE {BulkRebuild(pgs, root_page, table, added)}
         \cup {BulkInsertEach(pgs, root_page, table, added, o) : o \in Orders(DOMAIN added)}

\* Storage::remove: copy-on-write delete
Storage_remove(pgs, root_page, table, key) ==
    IF root_page = NoRoot THEN [pages |-> pgs, page |-> NoRoot]
    ELSE tree_delete(pgs, root_page, table, key)

\* the removes of the keys o[1..n], in that order
RECURSIVE RemoveEach(_, _, _, _, _)
RemoveEach(pgs, root_page, table, o, n) ==
    IF n = 0 THEN [pages |-> pgs, page |-> root_page]
    ELSE LET r == RemoveEach(pgs, root_page, table, o, n - 1)
         IN  Storage_remove(r.pages, r.page, table, o[n])

----------------------------------------------------------------------------
(* Transactions *)

EmptyMap == [k \in {} |-> <<>>]
MapPut(m, k, v) == [x \in DOMAIN m \cup {k} |-> IF x = k THEN v ELSE m[x]]
MapDel(m, k) == [x \in DOMAIN m \ {k} |-> m[x]]
Zeros(n) == [i \in 1..n |-> 0]

\* history: the database as it is now
Snapshot == [pages |-> pages, next_free_page |-> next_free_page, root |-> root]
NoSnapshot == [pages |-> <<>>, next_free_page |-> 1, root |-> NoRoot]

\* WriteTransaction::new; begin is history, not a field of the struct
WriteTransaction_new(table) ==
    [active |-> TRUE, table_id |-> table, added |-> EmptyMap, removed |-> {},
     begin |-> Snapshot]

\* no write transaction outstanding
NoWriteTransaction ==
    [active |-> FALSE, table_id |-> 0, added |-> EmptyMap, removed |-> {},
     begin |-> NoSnapshot]

\* WriteTransaction::insert
WriteTransaction_insert(w, key, value) ==
    [w EXCEPT !.removed = @ \ {key}, !.added = MapPut(@, key, value)]

\* WriteTransaction::insert_reserve, and the caller's write of data through
\* the returned view (None: the caller leaves the zeros)
WriteTransaction_insert_reserve(w, key, value_length, data) ==
    [w EXCEPT !.removed = @ \ {key},
              !.added = MapPut(@, key, IF data = None THEN Zeros(value_length)
                                       ELSE data[1])]

\* mutant: the key stays in the added map
WriteTransaction_remove_keeps_added(w, key) == [w EXCEPT !.removed = @ \cup {key}]

\* WriteTransaction::remove
WriteTransaction_remove(w, key) ==
    [w EXCEPT !.added = MapDel(@, key), !.removed = @ \cup {key}]

\* mutant: get goes to the committed tree whatever is staged
WriteTransaction_get_skips_added(w, key) == Storage_get(pages, w.table_id, key, root)

\* WriteTransaction::get
WriteTransaction_get(w, key) ==
    IF key \in DOMAIN w.added THEN Some(w.added[key])
    ELSE Storage_get(pages, w.table_id, key, root)

\* ReadOnlyTransaction::new: the root page number is captured
ReadOnlyTransaction_new(table) ==
    [active |-> TRUE, table_id |-> table, root_page |-> root]

NoReadTransaction == [active |-> FALSE, table_id |-> 0, root_page |-> NoRoot]

\* mutant: the read goes to the root published now, not to the captured one
ReadOnlyTransaction_get_current_root(r, key) == Storage_get(pages, r.table_id, key, root)

\* ReadOnlyTransaction::get
ReadOnlyTransaction_get(r, key) == Storage_get(pages, r.table_id, key, r.root_page)

\* mutant: the entries are counted under the current root
ReadOnlyTransaction_len_at_current_root(r) == Storage_len(pages, r.table_id, root)

\* ReadOnlyTransaction::len
ReadOnlyTransaction_len(r) == Storage_len(pages, r.table_id, r.root_page)

\* ReadOnlyTransaction::is_empty
ReadOnlyTransaction_is_empty(r) == Storage_len(pages, r.table_id, r.root_page) = 0

\* ReadOnlyTransaction::get_range run to the end
ReadOnlyTransaction_get_range(r, range) ==
    Storage_range(pages, r.table_id, range, r.root_page, FALSE)

\* ReadOnlyTransaction::get_range_reversed run to the end
ReadOnlyTransaction_get_range_reversed(r, range) ==
    Storage_range(pages, r.table_id, range, r.root_page, TRUE)

StagedCount(w) == Cardinality(DOMAIN w.added) + Cardinality(w.removed)

\* history: the abstract map after a commit of (added, removed) in table
ApplyCommitted(m, table, added, removed) ==
    [tk \in DOMAIN m |->
        IF tk[1] # table THEN m[tk]
        ELSE IF tk[2] \in removed THEN None
        ELSE IF tk[2] \in DOMAIN added THEN Some(added[tk[2]])
        ELSE m[tk]]

NoLast ==
    [op |-> "none", failed_at |-> "", table_id |-> 0, added |-> EmptyMap,
     removed |-> {}, begin |-> NoSnapshot]

Ended(op, failed_at) ==
    [op |-> op, failed_at |-> failed_at, table_id |-> wtxn.table_id,
     added |-> wtxn.added, removed |-> wtxn.removed, begin |-> wtxn.begin]

----------------------------------------------------------------------------
(* WriteTransaction::commit.  storage.bulk_insert(added)?, then              *)
(* storage.remove(key)? for each removed key, then storage.fsync()?; the     *)
(* root is published by fsync after the first flush.                         *)

\* the trees commit can have built when it reaches fsync: over the results
\* of bulk_insert and the iteration orders of the removed set
CommitTrees(w) ==
    UNION {{RemoveEach(b.pages, b.page, w.table_id, o, Len(o)) : o \in Orders(w.removed)}
              : b \in bulk_insert(pages, root, w.table_id, w.added)}

\* the trees built when the n-th remove fails (n - 1 removes were applied)
RemoveFailTrees(w) ==
    UNION {{RemoveEach(b.pages, b.page, w.table_id, o, n - 1)
               : o \in Orders(w.removed), n \in 1..Cardinality(w.removed)}
              : b \in bulk_insert(pages, root, w.table_id, w.added)}

----------------------------------------------------------------------------
(* What read transactions observe *)

Bounds == {Unbounded} \cup {Included(k) : k \in Keys} \cup {Excluded(k) : k \in Keys}
Ranges == {Range(b, e) : b \in Bounds, e \in Bounds}
\* the ranges a reader of Spec queries; SpecRange queries every range
ReaderRanges ==
    {Range(Unbounded, Unbounded),
     Range(Included(<<>>), Excluded(<<2>>)),
     Range(Included(<<1>>), Included(<<2>>)),
     Range(Excluded(<<>>), Unbounded)}

\* everything the read transaction r can observe
ReaderView(r) ==
    [get |-> [k \in Keys |-> ReadOnlyTransaction_get(r, k)],
     len |-> ReadOnlyTransaction_len(r),
     is_empty |-> ReadOnlyTransaction_is_empty(r),
     range |-> [q \in ReaderRanges |-> ReadOnlyTransaction_get_range(r, q)],
     range_reversed |->
         [q \in ReaderRanges |-> ReadOnlyTransaction_get_range_reversed(r, q)]]

\* what get, len, is_empty and the whole-table range of table answer on the
\* tree under root_page of the pages pgs
StorageView(pgs, root_page, table) ==
    [get |-> [k \in Keys |-> Storage_get(pgs, table, k, root_page)],
     len |-> Storage_len(pgs, table, root_page),
     is_empty |-> Storage_len(pgs, table, root_page) = 0,
     all |-> Storage_range(pgs, table, Range(Unbounded, Unbounded), root_page, FALSE)]

\* what a read transaction created now on table observes
FreshView(table) ==
    LET r == ReadOnlyTransaction_new(table) IN
    [get |-> [k \in Keys |-> ReadOnlyTransaction_get(r, k)],
     len |-> ReadOnlyTransaction_len(r),
     is_empty |-> ReadOnlyTransaction_is_empty(r),
     all |-> ReadOnlyTransaction_get_range(r, Range(Unbounded, Unbounded))]

\* what a read transaction on table observed when the write transaction that
\* recorded the snapshot began
ViewAt(snapshot, table) == StorageView(snapshot.pages, snapshot.root, table)

----------------------------------------------------------------------------
(* The parts of the state a specification does not use stay as they are     *)
(* here.                                                                    *)

\* page 0 of a mapping nothing was written to
NoHeader == [magic |-> FALSE, next_free |-> 0]
\* a file nothing was written to
NoDisk == [magic |-> FALSE, next_free |-> 0, root |-> 0, pages |-> <<>>]
\* the file is closed.  at is the position in Database::open / commit; the
\* other fields are history: tree is what the commit under way builds, old
\* the database that memory and file last agreed on, opened the file as
\* Database::open found it
NoPc ==
    [at |-> "closed", tree |-> [pages |-> <<>>, page |-> NoRoot], old |-> NoSnapshot,
     opened |-> NoDisk, in_commit |-> FALSE, root_stored |-> FALSE,
     magic_seen |-> FALSE, written |-> FALSE, halts |-> 0]
\* no page view handed out
NoResult == [kind |-> "none", page_number |-> 0, view |-> 0]
\* PageManager::restore on a header PageManager::initialize wrote; op, arg,
\* before and result are history: the last call, its argument, the counter
\* before it and what it returned
NoPm == [next_free_page |-> 1, op |-> "restore", arg |-> 0, before |-> 1,
         result |-> NoResult]
\* BTree::new: root is None
NoBTree == [root |-> None]
\* history of the B-tree: the keys inserted and not deleted since, whether
\* every insert so far was of a key that was not in the tree, the number of
\* calls, whether one was a delete, and the largest key a call is made with
NoBtHist ==
    [present |-> {}, fresh |-> TRUE, ops |-> 0, deleted |-> FALSE, top |-> 1]
\* the empty directory of a new database: names[id] is the name of table
\* id; name, before and result are history: the last open_table call, the
\* directory before it and what it returned
NoDir == [names |-> <<>>, name |-> <<>>, before |-> <<>>,
          result |-> [kind |-> "none", id |-> 0]]

\* bytes of a page, and of a u64 field of the node encoding
LeafPageSize == 64
U64Len == 8
\* the page a leaf will be written to and the page behind it in the mapping,
\* both zeros; lesser, greater and result are history: the last leaf
\* written and how the write ended; root is the published root
NoLeaf == [mem |-> [i \in 1..(2 * LeafPageSize) |-> 0], lesser |-> <<>>, greater |-> <<>>,
           result |-> "none", root |-> 0]

FileAtRest == hdr = NoHeader /\ disk = NoDisk /\ pc = NoPc
RestAtRest ==
    /\ FileAtRest
    /\ pm = NoPm /\ oplog = <<>> /\ btree = NoBTree /\ bt_hist = NoBtHist
    /\ dir = NoDir /\ leaf = NoLeaf

----------------------------------------------------------------------------
(* Spec: a fresh database, one writer at a time, one reader *)

\* no range iterator was created.  it is the BinarytreeRangeIter, key_type
\* the K of the Table<K> it came from, ended whether next has returned None
NoIter ==
    [it |-> BinarytreeRangeIter_new(NoRoot, 0, Range(Unbounded, Unbounded), FALSE),
     key_type |-> "bytes", ended |-> FALSE]

Init ==
    /\ pages = <<>>
    /\ next_free_page = 1
    /\ root = NoRoot
    /\ wtxn = NoWriteTransaction
    /\ rtxn = NoReadTransaction
    /\ rtxn_view = ReaderView(NoReadTransaction)
    /\ committed = [tk \in Tables \X Keys |-> None]
    /\ last = NoLast
    /\ commits = 0
    /\ iter = NoIter
    /\ yielded = <<>>
    /\ RestAtRest

\* Table::begin_write.  After a failed commit the caller reopens the
\* database, which ends the behaviour
BeginWrite(table) ==
    /\ ~wtxn.active
    /\ commits < MaxCommits
    /\ last.op # "commit_failed"
    /\ wtxn' = WriteTransaction_new(table)
    /\ last' = NoLast
    /\ UNCHANGED <<dbVars, rtxn, rtxn_view, committed, commits, iterVars, restVars>>

Staged(w) ==
    /\ StagedCount(w) <= MaxStaged
    /\ wtxn' = w
    /\ UNCHANGED <<dbVars, rtxn, rtxn_view, committed, last, commits, iterVars, restVars>>

\* mutant: insert writes through to the tree and publishes the root
Insert_write_through(key, value) ==
    /\ wtxn.active
    /\ StagedCount(WriteTransaction_insert(wtxn, key, value)) <= MaxStaged
    /\ wtxn' = WriteTransaction_insert(wtxn, key, value)
    /\ \E t \in bulk_insert(pages, root, wtxn.table_id, MapPut(EmptyMap, key, value)) :
          /\ pages' = t.pages
          /\ next_free_page' = Len(t.pages) + 1
          /\ root' = t.page
    /\ UNCHANGED <<rtxn, rtxn_view, committed, last, commits, iterVars, restVars>>

\* WriteTransaction::insert
Insert(key, value) ==
    /\ wtxn.active
    /\ Staged(WriteTransaction_insert(wtxn, key, value))

InsertReserve(key, value_length, data) ==
    /\ wtxn.active
    /\ Staged(WriteTransaction_insert_reserve(wtxn, key, value_length, data))

Remove(key) ==
    /\ wtxn.active
    /\ Staged(WriteTransaction_remove(wtxn, key))

\* commit returns Ok: the tree is built, flushed, and its root published
CommitOk ==
    /\ wtxn.active
    /\ \E t \in CommitTrees(wtxn) :
          /\ pages' = t.pages
          /\ next_free_page' = Len(t.pages) + 1
          /\ root' = t.page
    /\ committed' = ApplyCommitted(committed, wtxn.table_id, wtxn.added, wtxn.removed)
    /\ last' = Ended("commit_ok", "")
    /\ wtxn' = NoWriteTransaction
    /\ commits' = commits + 1
    /\ UNCHANGED <<rtxn, rtxn_view, iterVars, restVars>>

\* commit returns Err from bulk_insert: nothing was built
CommitFailsInBulkInsert ==
    /\ wtxn.active
    /\ last' = Ended("commit_failed", "bulk_insert")
    /\ wtxn' = NoWriteTransaction
    /\ commits' = commits + 1
    /\ UNCHANGED <<dbVars, rtxn, rtxn_view, committed, iterVars, restVars>>

\* commit returns Err from one of the removes: the pages written so far stay
\* allocated, the root is not published
CommitFailsInRemove ==
    /\ wtxn.active
    /\ \E t \in RemoveFailTrees(wtxn) :
          /\ pages' = t.pages
          /\ next_free_page' = Len(t.pages) + 1
    /\ last' = Ended("commit_failed", "remove")
    /\ wtxn' = NoWriteTransaction
    /\ commits' = commits + 1
    /\ UNCHANGED <<root, rtxn, rtxn_view, committed, iterVars, restVars>>

\* commit returns Err from the first flush of fsync: the whole tree was
\* written, the root is not published
CommitFailsInFsync ==
    /\ wtxn.active
    /\ \E t \in CommitTrees(wtxn) :
          /\ pages' = t.pages
          /\ next_free_page' = Len(t.pages) + 1
    /\ last' = Ended("commit_failed", "fsync")
    /\ wtxn' = NoWriteTransaction
    /\ commits' = commits + 1
    /\ UNCHANGED <<root, rtxn, rtxn_view, committed, iterVars, restVars>>

\* WriteTransaction::commit
Commit ==
    \/ CommitOk
    \/ CommitFailsInBulkInsert
    \/ CommitFailsInRemove
    \/ CommitFailsInFsync

\* mutant: abort folds the staged changes in and publishes the root
Abort_applies_staged ==
    /\ wtxn.active
    /\ \E t \in CommitTrees(wtxn) :
          /\ pages' = t.pages
          /\ next_free_page' = Len(t.pages) + 1
          /\ root' = t.page
    /\ last' = Ended("abort", "")
    /\ wtxn' = NoWriteTransaction
    /\ UNCHANGED <<rtxn, rtxn_view, committed, commits, iterVars, restVars>>

\* WriteTransaction::abort
Abort ==
    /\ wtxn.active
    /\ last' = Ended("abort", "")
    /\ wtxn' = NoWriteTransaction
    /\ UNCHANGED <<dbVars, rtxn, rtxn_view, committed, commits, iterVars, restVars>>

\* Table::read_transaction
ReadTransaction(table) ==
    /\ rtxn' = ReadOnlyTransaction_new(table)
    /\ rtxn_view' = ReaderView(ReadOnlyTransaction_new(table))
    /\ UNCHANGED <<dbVars, wtxn, committed, last, commits, iterVars, restVars>>

Next ==
    \/ \E table \in Tables : BeginWrite(table)
    \/ \E key \in Keys, value \in Values : Insert(key, value)
    \/ \E key \in Keys, data \in {None} \cup {Some(v) : v \in Values} :
          InsertReserve(key, 1, data)
    \/ \E key \in Keys : Remove(key)
    \/ Commit
    \/ Abort
    \/ \E table \in Tables : ReadTransaction(table)

Spec == Init /\ [][Next]_vars

----------------------------------------------------------------------------
(* Claims about transactions, checked under Spec *)

\* C1: snapshot isolation.  A read transaction keeps the root page number it
\* captured, and whatever is committed afterwards (inserts, overwrites,
\* removes), each of its get, len, is_empty, get_range and get_range_reversed
\* queries returns exactly what it returned when the transaction was created.
C1_SnapshotIsolation == rtxn.active => ReaderView(rtxn) = rtxn_view

\* C1 witness: a reader pinned to an older root answers a get differently
\* from the root a commit on its table has published since
C1_Witness ==
    /\ rtxn.active
    /\ last.op = "commit_ok"
    /\ rtxn.root_page # root
    /\ rtxn.root_page # NoRoot
    /\ rtxn.table_id = last.table_id
    /\ \E k \in Keys :
          /\ ReadOnlyTransaction_get(rtxn, k) # None
          /\ ReadOnlyTransaction_get(rtxn, k) # Storage_get(pages, rtxn.table_id, k, root)

\* C2: no dirty reads.  While a write transaction holds staged, uncommitted
\* inserts or removes, a read transaction created on any table observes none
\* of them: its get, len, is_empty and range results are those of the
\* database as it was when the write transaction began.
C2_NoDirtyReads ==
    wtxn.active => \A t \in Tables : FreshView(t) = ViewAt(wtxn.begin, t)

\* C2 witness: over committed data, an insert of a key no reader can see and
\* a remove of a key readers still see are both staged
C2_Witness ==
    /\ wtxn.active
    /\ root # NoRoot
    /\ \E k \in DOMAIN wtxn.added : FreshView(wtxn.table_id).get[k] = None
    /\ \E k \in wtxn.removed : FreshView(wtxn.table_id).get[k] # None

\* C3: a read transaction started after the commits agrees with the abstract
\* map: for every key of every table, get returns the value of the last
\* committed insert of the key, or absent when a later committed remove
\* exists or the key was never inserted.
C3_ReadAgreesWithAbstractMap ==
    ~wtxn.active =>
        \A t \in Tables, k \in Keys : FreshView(t).get[k] = committed[<<t, k>>]

\* C4: len of a read transaction is the number of distinct keys of its table
\* present in its snapshot, entries of other tables are not counted, and
\* is_empty is true exactly when len is 0.
C4_LenCountsKeysOfTable ==
    ~wtxn.active =>
        \A t \in Tables :
            /\ FreshView(t).len = Cardinality({k \in Keys : committed[<<t, k>>] # None})
            /\ FreshView(t).is_empty <=> (FreshView(t).len = 0)

\* C5: tables are independent.  After a commit on one table, get, len and
\* range queries of every other table answer what they answered when the
\* committing transaction began.
C5_TablesIndependent ==
    last.op = "commit_ok" =>
        \A t \in Tables \ {last.table_id} : FreshView(t) = ViewAt(last.begin, t)

\* C6: abort discards the staged inserts and removes with no effect on the
\* database: the published root, the next-free counter and every page are
\* those of the moment the write transaction began, and a read transaction
\* created after the abort sees what one created before the begin saw.
C6_AbortDiscards ==
    last.op = "abort" =>
        /\ Snapshot = last.begin
        /\ \A t \in Tables : FreshView(t) = ViewAt(last.begin, t)

\* C6 witness: a transaction over committed data was aborted with an insert
\* and a remove staged
C6_Witness ==
    /\ last.op = "abort"
    /\ root # NoRoot
    /\ DOMAIN last.added # {}
    /\ \E k \in last.removed : FreshView(last.table_id).get[k] # None

\* C10: commit is atomic.  After a commit that returned Ok every staged
\* insert and remove is reflected in what later read transactions see; after
\* a commit that failed in bulk_insert, in a remove or in fsync, none is
\* reflected and the published root is the one from before the commit.
C10_CommitAtomic ==
    /\ last.op = "commit_ok" =>
          /\ \A k \in DOMAIN last.added :
                FreshView(last.table_id).get[k] = Some(last.added[k])
          /\ \A k \in last.removed : FreshView(last.table_id).get[k] = None
    /\ last.op = "commit_failed" =>
          /\ root = last.begin.root
          /\ \A t \in Tables : FreshView(t) = ViewAt(last.begin, t)

----------------------------------------------------------------------------
(* SpecRange: range iterators stepped over trees made by the builder,       *)
(* tree_insert and tree_delete                                              *)

\* the key types of the tables: [u8] with its byte order, and ReverseKey of
\* the test custom_ordering
KeyTypes == {"bytes", "ReverseKey"}

\* ReverseKey::compare(data1, data2) = Less
ReverseKey_less(data1, data2) == BytesLess(data2, data1)

\* K::compare(data1, data2) = Less
KeyLess(key_type, data1, data2) ==
    IF key_type = "ReverseKey" THEN ReverseKey_less(data1, data2)
    ELSE BytesLess(data1, data2)

\* the batches the initial tree is built from: distinct (table, key) pairs
Batches == {S \in SUBSET (Tables \X Keys) : Cardinality(S) <= MaxEntries}

InitRange ==
    \E S \in Batches :
        LET o == CHOOSE o \in Orders(S) : TRUE
            pairs == [i \in 1..Len(o) |-> Entry(o[i][1], o[i][2], <<0>>)]
            t == IF S = {} THEN [pages |-> <<>>, page |-> NoRoot]
                 ELSE to_bytes(build(pairs), <<>>)
        IN  /\ pages = t.pages
            /\ next_free_page = Len(t.pages) + 1
            /\ root = t.page
            /\ committed = [tk \in Tables \X Keys |-> IF tk \in S THEN Some(<<0>>) ELSE None]
    /\ wtxn = NoWriteTransaction
    /\ rtxn = NoReadTransaction
    /\ rtxn_view = ReaderView(NoReadTransaction)
    /\ last = NoLast
    /\ commits = 0
    /\ iter = NoIter
    /\ yielded = <<>>
    /\ RestAtRest

\* the tree changes to t; no iterator is open
TreeChanged(t) ==
    /\ iter = NoIter
    /\ commits < MaxTreeOps
    /\ root # NoRoot
    /\ pages' = t.pages
    /\ next_free_page' = Len(t.pages) + 1
    /\ root' = t.page
    /\ commits' = commits + 1
    /\ UNCHANGED <<wtxn, rtxn, rtxn_view, last, iterVars, restVars>>

\* tree_insert on the root, and the publication of its result
TreeInsert(table, key, value) ==
    /\ TreeChanged(tree_insert(pages, root, table, key, value))
    /\ committed' = [committed EXCEPT ![<<table, key>>] = Some(value)]

\* tree_delete on the root, and the publication of its result
TreeDelete(table, key) ==
    /\ TreeChanged(tree_delete(pages, root, table, key))
    /\ committed' = [committed EXCEPT ![<<table, key>>] = None]

Opened(it, key_type) ==
    /\ iter' = [it |-> it, key_type |-> key_type, ended |-> FALSE]
    /\ yielded' = <<>>
    /\ UNCHANGED <<dbVars, txnVars, restVars>>

\* ReadOnlyTransaction<K>::get_range of a transaction created now
GetRange(table, key_type, range) ==
    /\ iter = NoIter
    /\ Opened(BinarytreeRangeIter_new(root, table, range, FALSE), key_type)

\* ReadOnlyTransaction<K>::get_range_reversed of a transaction created now
GetRangeReversed(table, key_type, range) ==
    /\ iter = NoIter
    /\ Opened(BinarytreeRangeIter_new(root, table, range, TRUE), key_type)

\* BinarytreeRangeIter::next
IterNext ==
    /\ iter # NoIter
    /\ ~iter.ended
    /\ LET r == iter_next(iter.it, pages) IN
          /\ iter' = [iter EXCEPT !.it.last = r.last, !.ended = (r.out = None)]
          /\ yielded' = IF r.out = None THEN yielded ELSE Append(yielded, r.out[1])
    /\ UNCHANGED <<dbVars, txnVars, restVars>>

\* the ranges asked of a table of the key type: every pair of bounds under
\* the byte order, the closed ranges under ReverseKey
RangesOf(key_type) ==
    IF key_type = "ReverseKey"
    THEN {Range(Included(a), Included(b)) : a \in Keys, b \in Keys}
    ELSE Ranges

NextRange ==
    \/ \E table \in Tables, key \in Keys, value \in Values : TreeInsert(table, key, value)
    \/ \E table \in Tables, key \in Keys : TreeDelete(table, key)
    \/ \E table \in Tables, key_type \in KeyTypes :
          \E range \in RangesOf(key_type) : GetRange(table, key_type, range)
    \/ \E table \in Tables, key_type \in KeyTypes :
          \E range \in RangesOf(key_type) : GetRangeReversed(table, key_type, range)
    \/ IterNext

SpecRange == InitRange /\ [][NextRange]_vars

----------------------------------------------------------------------------
(* Claims about range iteration, checked under SpecRange *)

\* the keys of S in increasing order of the key type
RECURSIVE SortedKeys(_, _)
SortedKeys(key_type, S) ==
    IF S = {} THEN <<>>
    ELSE LET m == CHOOSE m \in S : \A k \in S \ {m} : KeyLess(key_type, m, k)
         IN  <<m>> \o SortedKeys(key_type, S \ {m})

\* range.contains(key) under the order of the key type
ContainsUnder(key_type, range, key) ==
    /\ CASE range.start.kind = "Included" ->
                range.start.key = key \/ KeyLess(key_type, range.start.key, key)
         [] range.start.kind = "Excluded" -> KeyLess(key_type, range.start.key, key)
         [] OTHER -> TRUE
    /\ CASE range.end.kind = "Included" ->
                range.end.key = key \/ KeyLess(key_type, key, range.end.key)
         [] range.end.kind = "Excluded" -> KeyLess(key_type, key, range.end.key)
         [] OTHER -> TRUE

\* the entries of table within range, in increasing order of the key type
ExpectedRange(key_type, table, range) ==
    LET ks == SortedKeys(key_type, {k \in Keys : /\ committed[<<table, k>>] # None
                                                 /\ ContainsUnder(key_type, range, k)})
    IN  [i \in 1..Len(ks) |-> Entry(table, ks[i], committed[<<table, ks[i]>>][1])]

Reverse(s) == [i \in 1..Len(s) |-> s[Len(s) + 1 - i]]

\* C7: forward range iteration yields exactly the entries of the table whose
\* keys lie within the bounds, each once, in strictly increasing key order,
\* and then ends; no matching entry is skipped and no entry of another table
\* is yielded.
C7_ForwardRangeExact ==
    (iter.ended /\ ~iter.it.reversed /\ iter.key_type = "bytes") =>
        yielded = ExpectedRange("bytes", iter.it.table_id, iter.it.query_range)

\* C8: reversed range iteration yields the same entries as forward iteration
\* over the same snapshot, table and bounds, in the exact reverse of the
\* forward sequence, and then ends.
C8_ReversedIsReverseOfForward ==
    (iter.ended /\ iter.it.reversed) =>
        yielded = Reverse(Drain(BinarytreeRangeIter_new(root, iter.it.table_id,
                                                        iter.it.query_range, FALSE),
                                pages))

\* C8 witness: a reversed iteration between two bounds has ended after
\* yielding two entries, over a tree that holds entries of both tables
C8_Witness ==
    /\ iter.ended
    /\ iter.it.reversed
    /\ iter.it.query_range.start.kind # "Unbounded"
    /\ iter.it.query_range.end.kind # "Unbounded"
    /\ Len(yielded) >= 2
    /\ \A t \in Tables : \E k \in Keys : committed[<<t, k>>] # None

\* C9: for a table whose key type reverses the byte order, the tree orders
\* and range-filters the keys by that comparator: a forward get_range yields
\* the keys between the bounds in the comparator's increasing order,
\* get_range(hi..=lo) yielding hi down to lo, and then ends.
C9_CustomComparatorRange ==
    (iter.ended /\ ~iter.it.reversed /\ iter.key_type = "ReverseKey") =>
        yielded = ExpectedRange("ReverseKey", iter.it.table_id, iter.it.query_range)

----------------------------------------------------------------------------
(* SpecFile: the file under Database::open, commits and halts.  The mapping *)
(* is pages, hdr and root; the file is disk.  A store changes the mapping   *)
(* only; the operating system may write any dirty page of a shared mapping  *)
(* back at any time, and flush returns when every page has been written.    *)

\* commits in one behaviour of SpecFile
MaxFileCommits == 2
\* halts of the process in one behaviour of SpecFile
MaxHalts == 2
\* entries of the tree a file of Init holds
MaxFileEntries == 3

\* a page of the file nothing was written to
ZeroPage == [type |-> 0]

Max(a, b) == IF a >= b THEN a ELSE b

\* mutant: flush returns without writing anything back
PageManager_fsync_no_flush == disk

\* PageManager::fsync: self.mmap.borrow().flush(); the file after it
PageManager_fsync ==
    [magic |-> hdr.magic, next_free |-> hdr.next_free, root |-> root,
     pages |-> [i \in 1..Max(Len(pages), Len(disk.pages)) |->
                    IF i <= Len(pages) THEN pages[i] ELSE disk.pages[i]]]

\* the file after the write-back of page p alone
WrittenBack(p) ==
    IF p = DB_METADATA_PAGE
    THEN [disk EXCEPT !.magic = hdr.magic, !.next_free = hdr.next_free, !.root = root]
    ELSE [disk EXCEPT !.pages = [i \in 1..Max(p, Len(disk.pages)) |->
                                    IF i = p THEN pages[p]
                                    ELSE IF i <= Len(disk.pages) THEN disk.pages[i]
                                    ELSE ZeroPage]]

\* mutant: initialize goes on to write the header whatever the magic is
initialize_after_check_ignores_magic(magic) == "init_header"

\* Storage::initialize, the check of the magic number: the next position
initialize_after_check(magic) == IF magic THEN "idle" ELSE "init_header"

\* the closed files of Init: one nothing was written to, one with a stale
\* header and no magic, and initialized ones holding a tree
InitialFiles ==
    {NoDisk, [NoDisk EXCEPT !.next_free = 3, !.root = 2]}
    \cup {LET o == CHOOSE o \in Orders(S) : TRUE
              pairs == [i \in 1..Len(o) |-> Entry(o[i][1], o[i][2], <<0>>)]
              t == IF S = {} THEN [pages |-> <<>>, page |-> NoRoot]
                   ELSE to_bytes(build(pairs), <<>>)
          IN  [magic |-> TRUE, next_free |-> Len(t.pages) + 1, root |-> t.page,
               pages |-> t.pages]
          : S \in {S \in SUBSET (Tables \X Keys) : Cardinality(S) <= MaxFileEntries}}

InitFile ==
    /\ disk \in InitialFiles
    /\ pc = [NoPc EXCEPT !.magic_seen = disk.magic,
                         !.old = [pages |-> disk.pages, next_free_page |-> disk.next_free,
                                  root |-> disk.root]]
    /\ hdr = NoHeader
    /\ pages = <<>>
    /\ next_free_page = 0
    /\ root = NoRoot
    /\ wtxn = NoWriteTransaction
    /\ rtxn = NoReadTransaction
    /\ rtxn_view = ReaderView(NoReadTransaction)
    /\ committed = [tk \in Tables \X Keys |-> None]
    /\ last = NoLast
    /\ commits = 0
    /\ iter = NoIter
    /\ yielded = <<>>
    /\ pm = NoPm /\ oplog = <<>> /\ btree = NoBTree /\ bt_hist = NoBtHist
    /\ dir = NoDir /\ leaf = NoLeaf

fileFrame ==
    <<wtxn, rtxn, rtxn_view, committed, last, iterVars, pm, oplog, btree, bt_hist, dir,
      leaf>>

\* the position becomes at and the file d
Goes(at, d, p) ==
    /\ disk' = d
    /\ pc' = [p EXCEPT !.at = at, !.magic_seen = @ \/ d.magic]

\* Database::open: the file is mapped
Open ==
    /\ pc.at = "closed"
    /\ hdr' = [magic |-> disk.magic, next_free |-> disk.next_free]
    /\ root' = disk.root
    /\ pages' = IF disk.magic THEN SubSeq(disk.pages, 1, disk.next_free - 1) ELSE <<>>
    /\ Goes("init_check", disk,
            [pc EXCEPT !.opened = disk, !.in_commit = FALSE, !.root_stored = FALSE,
                       !.written = FALSE,
                       !.old = [pages |-> IF disk.magic
                                          THEN SubSeq(disk.pages, 1, disk.next_free - 1)
                                          ELSE <<>>,
                                next_free_page |-> disk.next_free, root |-> disk.root]])
    /\ UNCHANGED <<next_free_page, commits, fileFrame>>

\* mutant: restore starts the counter at the first page
Restored_at_first_page(at) == IF at = "idle" THEN 1 ELSE next_free_page

\* PageManager::restore: the counter is read from the header
Restored(at) == IF at = "idle" THEN hdr.next_free ELSE next_free_page

\* Storage::initialize: if the magic is there, return
InitCheck ==
    /\ pc.at = "init_check"
    /\ Goes(initialize_after_check(hdr.magic), disk, pc)
    /\ next_free_page' = Restored(initialize_after_check(hdr.magic))
    /\ UNCHANGED <<pages, root, hdr, commits, fileFrame>>

\* Storage::initialize: the header fields are stored (PageManager::initialize
\* stores 1 as the next free page)
InitWriteHeader ==
    /\ pc.at = "init_header"
    /\ hdr' = [hdr EXCEPT !.next_free = 1]
    /\ root' = NoRoot
    /\ pages' = <<>>
    /\ Goes("init_flush_header", disk,
            [pc EXCEPT !.old = [pages |-> <<>>, next_free_page |-> 1, root |-> NoRoot]])
    /\ UNCHANGED <<next_free_page, commits, fileFrame>>

\* Storage::initialize: mmap.flush()
InitFlushHeader ==
    /\ pc.at = "init_flush_header"
    /\ Goes("init_magic", PageManager_fsync, pc)
    /\ UNCHANGED <<dbVars, hdr, commits, fileFrame>>

\* Storage::initialize: the magic number is stored
InitWriteMagic ==
    /\ pc.at = "init_magic"
    /\ hdr' = [hdr EXCEPT !.magic = TRUE]
    /\ Goes("init_flush_magic", disk, pc)
    /\ UNCHANGED <<dbVars, commits, fileFrame>>

\* Storage::initialize: mmap.flush(), and the return
InitFlushMagic ==
    /\ pc.at = "init_flush_magic"
    /\ Goes("idle", PageManager_fsync, pc)
    /\ next_free_page' = hdr.next_free
    /\ UNCHANGED <<pages, root, hdr, commits, fileFrame>>

\* a commit starts: tree is what its tree operation will have written
CommitStarts(tree) ==
    /\ commits < MaxFileCommits
    /\ commits' = commits + 1
    /\ Goes("write_pages", disk,
            [pc EXCEPT !.tree = tree, !.in_commit = TRUE, !.root_stored = FALSE,
                       !.written = TRUE])
    /\ UNCHANGED <<dbVars, hdr, fileFrame>>

\* a commit of one insert
CommitInsert(table, key, value) ==
    /\ pc.at = "idle"
    /\ CommitStarts(BulkInsertEach(pages, root, table, MapPut(EmptyMap, key, value), <<key>>))

\* a commit of one remove
CommitRemove(table, key) ==
    /\ pc.at = "idle"
    /\ CommitStarts(Storage_remove(pages, root, table, key))

\* step 1 of the publication: the next page of the new tree is allocated and
\* written
WritePage ==
    /\ pc.at = "write_pages"
    /\ Len(pages) < Len(pc.tree.pages)
    /\ pages' = Append(pages, pc.tree.pages[Len(pages) + 1])
    /\ next_free_page' = next_free_page + 1
    /\ UNCHANGED <<root, hdr, disk, pc, commits, fileFrame>>

\* step 2: the mapping is flushed
FlushData ==
    /\ pc.at = "write_pages"
    /\ Len(pages) = Len(pc.tree.pages)
    /\ Goes("store_next_free", PageManager_fsync, pc)
    /\ UNCHANGED <<dbVars, hdr, commits, fileFrame>>

\* step 3: the next-free counter is stored in page 0 (PageManager::store_state)
StoreNextFree ==
    /\ pc.at = "store_next_free"
    /\ hdr' = [hdr EXCEPT !.next_free = next_free_page]
    /\ Goes("store_root", disk, pc)
    /\ UNCHANGED <<dbVars, commits, fileFrame>>

\* step 3: the new root is stored in page 0
StoreRoot ==
    /\ pc.at = "store_root"
    /\ root' = pc.tree.page
    /\ Goes("flush_root", disk, [pc EXCEPT !.root_stored = TRUE])
    /\ UNCHANGED <<pages, next_free_page, hdr, commits, fileFrame>>

\* step 4: the mapping is flushed, and commit returns
FlushRoot ==
    /\ pc.at = "flush_root"
    /\ Goes("idle", PageManager_fsync,
            [pc EXCEPT !.old = [pages |-> pages, next_free_page |-> next_free_page,
                                root |-> root],
                       !.in_commit = FALSE, !.root_stored = FALSE])
    /\ UNCHANGED <<dbVars, hdr, commits, fileFrame>>

\* the operating system writes a dirty page of the mapping back
WriteBack ==
    /\ pc.at # "closed"
    /\ \E p \in 0..Len(pages) :
          /\ WrittenBack(p) # disk
          /\ Goes(pc.at, WrittenBack(p), pc)
    /\ UNCHANGED <<dbVars, hdr, commits, fileFrame>>

\* the process halts: what was not written back is lost
Halt ==
    /\ pc.at # "closed"
    /\ pc.halts < MaxHalts
    /\ Goes("closed", disk, [pc EXCEPT !.halts = @ + 1])
    /\ hdr' = NoHeader
    /\ pages' = <<>>
    /\ next_free_page' = 0
    /\ root' = NoRoot
    /\ UNCHANGED <<commits, fileFrame>>

NextFile ==
    \/ Open
    \/ InitCheck
    \/ InitWriteHeader
    \/ InitFlushHeader
    \/ InitWriteMagic
    \/ InitFlushMagic
    \/ \E table \in Tables, key \in Keys : CommitInsert(table, key, <<1>>)
    \/ \E table \in Tables, key \in Keys : CommitRemove(table, key)
    \/ WritePage
    \/ FlushData
    \/ StoreNextFree
    \/ StoreRoot
    \/ FlushRoot
    \/ WriteBack
    \/ Halt

SpecFile == InitFile /\ [][NextFile]_vars

\* the page is inside the allocated part of the file d and was written
RECURSIVE TreeIntact(_, _, _)
TreeIntact(d, pgs, page) ==
    /\ page \in 1..(d.next_free - 1)
    /\ page <= Len(d.pages)
    /\ page <= Len(pgs)
    /\ d.pages[page] = pgs[page]
    /\ pgs[page].type = INTERNAL =>
          /\ TreeIntact(d, pgs, pgs[page].lte_page)
          /\ TreeIntact(d, pgs, pgs[page].gt_page)

\* reopening the file yields the tree of root page page in pgs, whole
DurableIs(pgs, page) ==
    /\ disk.magic
    /\ disk.next_free >= 1
    /\ disk.root = page
    /\ page # NoRoot => TreeIntact(disk, pgs, page)

C12_WitnessReopen ==
    /\ pc.at = "idle"
    /\ pc.opened.magic
    /\ pc.opened.root # NoRoot
    /\ pc.halts >= 1
    /\ ~pc.written

----------------------------------------------------------------------------
(* Copy-on-write, under Spec *)

IsPrefix(a, b) == Len(a) <= Len(b) /\ SubSeq(b, 1, Len(a)) = a

\* C13: the tree is copy-on-write.  Every page that was in use when a write
\* transaction began (the pages reachable from the published root among
\* them) holds after the transaction what it held before; what the
\* transaction wrote is in pages allocated since, and the allocation counter
\* is one past the last page written.
C13_CopyOnWrite ==
    /\ last.op # "none" => IsPrefix(last.begin.pages, pages)
    /\ wtxn.active => IsPrefix(wtxn.begin.pages, pages)
    /\ next_free_page = Len(pages) + 1

\* a commit on a database that had a tree wrote new pages and published a
\* new root
C13_Witness ==
    /\ last.op = "commit_ok"
    /\ last.begin.root # NoRoot
    /\ Len(pages) > Len(last.begin.pages)
    /\ root # last.begin.root
    /\ root # NoRoot

----------------------------------------------------------------------------
(* SpecPM: the page manager alone, under every call sequence.  u64 is       *)
(* scaled down to PageBits bits; an arithmetic overflow panics in a debug   *)
(* build and wraps in a release build, and both outcomes are taken.         *)

\* bits of a page number
PageBits == 3
\* bytes of a page
PageSize == 2
\* pages of the mapping
MmapPages == 4

U64 == 2 ^ PageBits
ALL_MEMORY_HACK == U64 - 1

PanicResult == [kind |-> "panic", page_number |-> 0, view |-> 0]

\* the slice m[start..end] of get_page / get_page_mut: the results the
\* build can produce for page_number
PageSlice(page_number) ==
    LET start == page_number * PageSize IN
    IF start + PageSize > U64
    THEN {PanicResult}
         \cup (IF (start % U64) + PageSize <= MmapPages * PageSize
               THEN {[kind |-> "page", page_number |-> page_number,
                      view |-> (start % U64) \div PageSize]}
               ELSE {})
    ELSE IF start + PageSize <= MmapPages * PageSize
         THEN {[kind |-> "page", page_number |-> page_number, view |-> page_number]}
         ELSE {PanicResult}

\* PageManager::get_page and get_page_mut (the same but for mutability)
get_page(next_free, page_number) ==
    IF page_number = ALL_MEMORY_HACK
    THEN {[kind |-> "all_memory", page_number |-> page_number, view |-> 0]}
    ELSE IF ~(page_number < next_free) THEN {PanicResult}
    ELSE PageSlice(page_number)

\* PageManager::hack_set_free_page_to_next_after: the values the counter can
\* get, or -1 for a panic
hack_set_free_page_to_next_after(offset) ==
    IF offset + PageSize - 1 >= U64
    THEN {-1, ((offset + PageSize - 1) % U64) \div PageSize}
    ELSE {(offset + PageSize - 1) \div PageSize}

InitPM ==
    /\ pm = NoPm
    /\ pages = <<>>
    /\ next_free_page = 1
    /\ root = NoRoot
    /\ wtxn = NoWriteTransaction
    /\ rtxn = NoReadTransaction
    /\ rtxn_view = ReaderView(NoReadTransaction)
    /\ committed = [tk \in Tables \X Keys |-> None]
    /\ last = NoLast
    /\ commits = 0
    /\ iter = NoIter
    /\ yielded = <<>>
    /\ FileAtRest /\ oplog = <<>> /\ btree = NoBTree /\ bt_hist = NoBtHist
    /\ dir = NoDir /\ leaf = NoLeaf

pmFrame == <<dbVars, txnVars, iterVars, fileVars, oplog, btree, bt_hist, dir, leaf>>

Called(op, arg, next_free, result) ==
    pm' = [next_free_page |-> next_free, op |-> op, arg |-> arg,
           before |-> pm.next_free_page, result |-> result]

\* PageManager::allocate
PMAllocate ==
    /\ \/ /\ pm.next_free_page + 1 < U64
          /\ \E r \in get_page(pm.next_free_page + 1, pm.next_free_page) :
                Called("allocate", 0, pm.next_free_page + 1, r)
       \/ /\ pm.next_free_page + 1 >= U64
          /\ \/ Called("allocate", 0, pm.next_free_page, PanicResult)
             \/ \E r \in get_page(0, pm.next_free_page) : Called("allocate", 0, 0, r)
    /\ UNCHANGED pmFrame

\* PageManager::get_page
PMGetPage(page_number) ==
    /\ \E r \in get_page(pm.next_free_page, page_number) :
          Called("get_page", page_number, pm.next_free_page, r)
    /\ UNCHANGED pmFrame

\* PageManager::get_page_mut
PMGetPageMut(page_number) ==
    /\ \E r \in get_page(pm.next_free_page, page_number) :
          Called("get_page_mut", page_number, pm.next_free_page, r)
    /\ UNCHANGED pmFrame

\* PageManager::hack_set_free_page_to_next_after
PMHackSet(offset) ==
    /\ \E n \in hack_set_free_page_to_next_after(offset) :
          IF n = -1
          THEN Called("hack_set", offset, pm.next_free_page, PanicResult)
          ELSE Called("hack_set", offset, n, NoResult)
    /\ UNCHANGED pmFrame

\* PageManager::store_state into the header, and PageManager::restore from it
PMStoreRestore ==
    /\ Called("restore", 0, pm.next_free_page, NoResult)
    /\ UNCHANGED pmFrame

NextPM ==
    \/ PMAllocate
    \/ \E page_number \in 0..(U64 - 1) : PMGetPage(page_number)
    \/ \E page_number \in 0..(U64 - 1) : PMGetPageMut(page_number)
    \/ \E offset \in 0..(U64 - 1) : PMHackSet(offset)
    \/ PMStoreRestore

SpecPM == InitPM /\ [][NextPM]_vars

\* C14: allocate returns the page whose number is the next-free counter
\* before the call and increments the counter by one; in every reachable
\* state of the page manager, after hack_set_free_page_to_next_after too, the
\* page it returns is neither page 0 nor the all-ones sentinel.
C14_AllocateNeverMetadataNorSentinel ==
    (pm.op = "allocate" /\ pm.result.kind # "panic") =>
        /\ pm.result.page_number = pm.before
        /\ pm.next_free_page = pm.before + 1
        /\ pm.result.page_number # DB_METADATA_PAGE
        /\ pm.result.page_number # ALL_MEMORY_HACK

\* C15: get_page(n) fails for every n at or beyond the next-free counter,
\* the all-ones sentinel included, and returns a view of exactly page n for
\* every other n.
C15_GetPageFailsFromNextFreeOn ==
    pm.op = "get_page" =>
        IF pm.arg >= pm.next_free_page
        THEN pm.result.kind = "panic"
        ELSE pm.result = [kind |-> "page", page_number |-> pm.arg, view |-> pm.arg]

----------------------------------------------------------------------------
(* SpecTxn: one write transaction, call by call, on a database that holds   *)
(* a tree.  oplog is history: the calls made on the transaction, each with  *)
(* the bytes its value has now (the caller of insert_reserve writes them    *)
(* through the view it was given, while it holds the view).                 *)

\* calls on one write transaction
MaxTxnOps == 2
\* the largest value_length given to insert_reserve
MaxReserve == 2
\* entries of the tree the database of Init holds
MaxTxnEntries == 2

Bytes == {0, 1}

InitTxn ==
    /\ \E S \in {S \in SUBSET (Tables \X Keys) : Cardinality(S) <= MaxTxnEntries} :
          LET o == CHOOSE o \in Orders(S) : TRUE
              pairs == [i \in 1..Len(o) |-> Entry(o[i][1], o[i][2], <<0>>)]
              t == IF S = {} THEN [pages |-> <<>>, page |-> NoRoot]
                   ELSE to_bytes(build(pairs), <<>>)
          IN  /\ pages = t.pages
              /\ next_free_page = Len(t.pages) + 1
              /\ root = t.page
              /\ committed = [tk \in Tables \X Keys |->
                                 IF tk \in S THEN Some(<<0>>) ELSE None]
    /\ wtxn = NoWriteTransaction
    /\ rtxn = NoReadTransaction
    /\ rtxn_view = ReaderView(NoReadTransaction)
    /\ last = NoLast
    /\ commits = 0
    /\ iter = NoIter
    /\ yielded = <<>>
    /\ oplog = <<>>
    /\ FileAtRest /\ pm = NoPm /\ btree = NoBTree /\ bt_hist = NoBtHist
    /\ dir = NoDir /\ leaf = NoLeaf

txnFrame == <<rtxn, rtxn_view, iterVars, fileVars, pm, btree, bt_hist, dir, leaf>>

\* Table::begin_write
TxnBegin(table) ==
    /\ ~wtxn.active
    /\ commits = 0
    /\ wtxn' = WriteTransaction_new(table)
    /\ oplog' = <<>>
    /\ UNCHANGED <<dbVars, committed, last, commits, txnFrame>>

\* a call on the transaction: it becomes w, and the call is logged
TxnCalled(w, call) ==
    /\ Len(oplog) < MaxTxnOps
    /\ wtxn' = w
    /\ oplog' = Append(oplog, call)
    /\ UNCHANGED <<dbVars, committed, last, commits, txnFrame>>

\* WriteTransaction::insert
TxnInsert(key, value) ==
    /\ wtxn.active
    /\ TxnCalled(WriteTransaction_insert(wtxn, key, value),
                 [op |-> "insert", key |-> key, value_length |-> Len(value),
                  value |-> value])

\* WriteTransaction::insert_reserve; the caller holds the view
TxnInsertReserve(key, value_length) ==
    /\ wtxn.active
    /\ TxnCalled(WriteTransaction_insert_reserve(wtxn, key, value_length, None),
                 [op |-> "insert_reserve", key |-> key, value_length |-> value_length,
                  value |-> Zeros(value_length)])

\* the caller stores byte b at index i of the view insert_reserve returned
TxnWriteReserved(i, b) ==
    /\ wtxn.active
    /\ oplog # <<>>
    /\ oplog[Len(oplog)].op = "insert_reserve"
    /\ i \in 1..oplog[Len(oplog)].value_length
    /\ oplog[Len(oplog)].value[i] # b
    /\ wtxn' = [wtxn EXCEPT !.added[oplog[Len(oplog)].key][i] = b]
    /\ oplog' = [oplog EXCEPT ![Len(oplog)].value[i] = b]
    /\ UNCHANGED <<dbVars, committed, last, commits, txnFrame>>

\* WriteTransaction::remove
TxnRemove(key) ==
    /\ wtxn.active
    /\ TxnCalled(WriteTransaction_remove(wtxn, key),
                 [op |-> "remove", key |-> key, value_length |-> 0, value |-> <<>>])

\* WriteTransaction::commit returning Ok
TxnCommit ==
    /\ wtxn.active
    /\ \E t \in CommitTrees(wtxn) :
          /\ pages' = t.pages
          /\ next_free_page' = Len(t.pages) + 1
          /\ root' = t.page
    /\ committed' = ApplyCommitted(committed, wtxn.table_id, wtxn.added, wtxn.removed)
    /\ last' = Ended("commit_ok", "")
    /\ wtxn' = NoWriteTransaction
    /\ commits' = commits + 1
    /\ UNCHANGED <<oplog, txnFrame>>

NextTxn ==
    \/ \E table \in Tables : TxnBegin(table)
    \/ \E key \in Keys, value \in Values : TxnInsert(key, value)
    \/ \E key \in Keys, value_length \in 0..MaxReserve : TxnInsertReserve(key, value_length)
    \/ \E i \in 1..MaxReserve, b \in Bytes : TxnWriteReserved(i, b)
    \/ \E key \in Keys : TxnRemove(key)
    \/ TxnCommit

SpecTxn == InitTxn /\ [][NextTxn]_vars

\* the last call of the log on key, or None
RECURSIVE LastCallOn(_, _)
LastCallOn(log, key) ==
    IF log = <<>> THEN None
    ELSE IF log[Len(log)].key = key THEN Some(log[Len(log)])
    ELSE LastCallOn(SubSeq(log, 1, Len(log) - 1), key)

\* C16: insert_reserve(k, len) stages k with a buffer of exactly len zero
\* bytes and takes k out of the removed set; the bytes the caller writes
\* into the buffer before commit are the value a reader created after the
\* commit gets for k.
C16_InsertReserve ==
    /\ (wtxn.active /\ oplog # <<>> /\ oplog[Len(oplog)].op = "insert_reserve") =>
          LET c == oplog[Len(oplog)] IN
          /\ c.key \in DOMAIN wtxn.added
          /\ c.key \notin wtxn.removed
          /\ Len(wtxn.added[c.key]) = c.value_length
          /\ wtxn.added[c.key] = c.value
    /\ last.op = "commit_ok" =>
          \A key \in Keys :
              (/\ LastCallOn(oplog, key) # None
               /\ LastCallOn(oplog, key)[1].op = "insert_reserve") =>
                  FreshView(last.table_id).get[key] = Some(LastCallOn(oplog, key)[1].value)

\* C16 but for the read after the commit: what insert_reserve stages
C16_ReserveStagesZeros ==
    (wtxn.active /\ oplog # <<>> /\ oplog[Len(oplog)].op = "insert_reserve") =>
        LET c == oplog[Len(oplog)] IN
        /\ c.key \in DOMAIN wtxn.added
        /\ c.key \notin wtxn.removed
        /\ Len(wtxn.added[c.key]) = c.value_length
        /\ wtxn.added[c.key] = c.value

\* C17: get(k) on a write transaction returns the value the transaction
\* staged for k when k is in its added map (the last call on k was an insert
\* or an insert_reserve), and otherwise what the committed root holds for k,
\* after a remove of k too.
C17_GetReadsOwnWrites ==
    wtxn.active =>
        \A key \in Keys :
            LET c == LastCallOn(oplog, key) IN
            WriteTransaction_get(wtxn, key) =
                IF c # None /\ c[1].op # "remove" THEN Some(c[1].value)
                ELSE ViewAt(wtxn.begin, wtxn.table_id).get[key]

\* the transaction staged a value for a key whose committed value is another,
\* and removed a key that the committed root holds
C17_Witness ==
    /\ wtxn.active
    /\ \E key \in DOMAIN wtxn.added :
          /\ ViewAt(wtxn.begin, wtxn.table_id).get[key] # None
          /\ ViewAt(wtxn.begin, wtxn.table_id).get[key] # Some(wtxn.added[key])
    /\ \E key \in wtxn.removed : ViewAt(wtxn.begin, wtxn.table_id).get[key] # None

----------------------------------------------------------------------------
(* The in-RAM B-tree of btree.rs.  A node is its three vectors; indices are *)
(* those of the source, from 0.                                             *)

\* minimum degree
B == 3

Node_new == [keys |-> <<>>, values |-> <<>>, children |-> <<>>]

\* Vec::insert(index, x), Vec::remove(index), and the two halves of
\* Vec::split_off(at)
vec_insert(v, index, x) == SubSeq(v, 1, index) \o <<x>> \o SubSeq(v, index + 1, Len(v))
vec_remove(v, index) == SubSeq(v, 1, index) \o SubSeq(v, index + 2, Len(v))
vec_kept(v, at) == SubSeq(v, 1, at)
vec_split_off(v, at) == SubSeq(v, at + 1, Len(v))

\* slice::binary_search: Ok(index of a match) or Err(insertion point); of
\* several matches any may be returned, pick says which
binary_search(keys, key, pick) ==
    LET matches == {i \in 1..Len(keys) : keys[i] = key} IN
    IF matches # {}
    THEN [ok |-> TRUE,
          index |-> (IF pick = "first"
                     THEN CHOOSE i \in matches : \A j \in matches : i <= j
                     ELSE CHOOSE i \in matches : \A j \in matches : i >= j) - 1]
    ELSE [ok |-> FALSE, index |-> Cardinality({i \in 1..Len(keys) : keys[i] < key})]

\* Node::is_full
is_full(node) == Len(node.keys) >= 2 * B - 1

\* Node::split_child
split_child(self, index) ==
    LET child == self.children[index + 1]
        split_key == child.keys[B]
        split_value == child.values[B]
        right == [keys |-> vec_split_off(child.keys, B),
                  values |-> vec_split_off(child.values, B),
                  children |-> IF child.children # <<>>
                               THEN vec_split_off(child.children, B) ELSE <<>>]
        left == [keys |-> vec_remove(vec_kept(child.keys, B), B - 1),
                 values |-> vec_remove(vec_kept(child.values, B), B - 1),
                 children |-> IF child.children # <<>>
                              THEN vec_kept(child.children, B) ELSE <<>>]
    IN  [keys |-> vec_insert(self.keys, index, split_key),
         values |-> vec_insert(self.values, index, split_value),
         children |-> vec_insert([self.children EXCEPT ![index + 1] = left],
                                 index + 1, right)]

\* Node::insert_non_full
RECURSIVE insert_non_full(_, _, _, _)
insert_non_full(self, key, value, pick) ==
    LET found == binary_search(self.keys, key, pick)
        index == found.index
    IN  IF found.ok THEN self
        ELSE IF self.children = <<>>
        THEN [self EXCEPT !.keys = vec_insert(@, index, key),
                          !.values = vec_insert(@, index, value)]
        ELSE IF is_full(self.children[index + 1])
        THEN LET split == split_child(self, index)
                 to == IF split.keys[index + 1] < key THEN index + 1 ELSE index
             IN  [split EXCEPT !.children[to + 1] =
                                   insert_non_full(@, key, value, pick)]
        ELSE [self EXCEPT !.children[index + 1] = insert_non_full(@, key, value, pick)]

\* BTree::insert
BTree_insert(tree, key, value, pick) ==
    IF tree.root # None
    THEN IF is_full(tree.root[1])
         THEN [root |-> Some(insert_non_full(
                            split_child([Node_new EXCEPT !.children = <<tree.root[1]>>], 0),
                            key, value, pick))]
         ELSE [root |-> Some(insert_non_full(tree.root[1], key, value, pick))]
    ELSE [root |-> Some(insert_non_full(Node_new, key, value, pick))]

\* Node::search
RECURSIVE Node_search(_, _, _)
Node_search(self, key, pick) ==
    LET found == binary_search(self.keys, key, pick) IN
    IF found.ok THEN Some(self.values[found.index + 1])
    ELSE IF self.children = <<>> THEN None
    ELSE Node_search(self.children[found.index + 1], key, pick)

\* BTree::search
BTree_search(tree, key, pick) ==
    IF tree.root = None THEN None ELSE Node_search(tree.root[1], key, pick)

\* mutant: dfs leaves out the subtree after the last key
RECURSIVE dfs_without_last_child(_, _)
dfs_without_last_child(node, i) ==
    IF i < Len(node.keys)
    THEN (IF i < Len(node.children)
          THEN dfs_without_last_child(node.children[i + 1], 0) ELSE <<>>)
         \o <<<<node.keys[i + 1], node.values[i + 1]>>>>
         \o dfs_without_last_child(node, i + 1)
    ELSE <<>>

\* BTree::dfs, from the i-th key of the node on
RECURSIVE dfs(_, _)
dfs(node, i) ==
    IF i < Len(node.keys)
    THEN (IF i < Len(node.children) THEN dfs(node.children[i + 1], 0) ELSE <<>>)
         \o <<<<node.keys[i + 1], node.values[i + 1]>>>>
         \o dfs(node, i + 1)
    ELSE IF node.children # <<>> THEN dfs(node.children[Len(node.children)], 0)
    ELSE <<>>

\* BTree::traverse
BTree_traverse(tree) == IF tree.root = None THEN <<>> ELSE dfs(tree.root[1], 0)

\* Node::find_predecessor
RECURSIVE find_predecessor(_)
find_predecessor(node) ==
    IF node.children # <<>> THEN find_predecessor(node.children[Len(node.children)])
    ELSE <<node.keys[Len(node.keys)], node.values[Len(node.values)]>>

\* Node::find_successor
RECURSIVE find_successor(_)
find_successor(node) ==
    IF node.children # <<>> THEN find_successor(node.children[1])
    ELSE <<node.keys[1], node.values[1]>>

\* Node::borrow_from_left
borrow_from_left(self, index) ==
    LET left_sibling == self.children[index]
        moved == left_sibling.children # <<>>
    IN  [keys |-> vec_insert(self.keys, index - 1, left_sibling.keys[Len(left_sibling.keys)]),
         values |-> vec_insert(self.values, index - 1,
                               left_sibling.values[Len(left_sibling.values)]),
         children |->
             [self.children EXCEPT
                 ![index] = [keys |-> vec_kept(@.keys, Len(@.keys) - 1),
                             values |-> vec_kept(@.values, Len(@.values) - 1),
                             children |-> IF moved
                                          THEN vec_kept(@.children, Len(@.children) - 1)
                                          ELSE <<>>],
                 ![index + 1] = [@ EXCEPT !.children =
                                     IF moved
                                     THEN <<left_sibling.children[Len(left_sibling.children)]>>
                                          \o @
                                     ELSE @]]]

\* Node::borrow_from_right
borrow_from_right(self, index) ==
    LET right_sibling == self.children[index + 2]
        moved == right_sibling.children # <<>>
    IN  [keys |-> vec_insert(self.keys, index, right_sibling.keys[1]),
         values |-> vec_insert(self.values, index, right_sibling.values[1]),
         children |->
             [self.children EXCEPT
                 ![index + 2] = [keys |-> vec_remove(@.keys, 0),
                                 values |-> vec_remove(@.values, 0),
                                 children |-> IF moved THEN vec_remove(@.children, 0)
                                              ELSE <<>>],
                 ![index + 1] = [@ EXCEPT !.children =
                                     IF moved THEN Append(@, right_sibling.children[1])
                                     ELSE @]]]

\* Node::merge_with_left
merge_with_left(self, index) ==
    LET current_node == self.children[index + 1] IN
    [keys |-> vec_remove(self.keys, index - 1),
     values |-> vec_remove(self.values, index - 1),
     children |->
         [self.children EXCEPT
             ![index] = [keys |-> Append(@.keys, self.keys[index]) \o current_node.keys,
                         values |-> Append(@.values, self.values[index])
                                    \o current_node.values,
                         children |-> @.children \o current_node.children],
             ![index + 1] = Node_new]]

\* Node::merge_with_right
merge_with_right(self, index) ==
    LET right_sibling == self.children[index + 2] IN
    [keys |-> vec_remove(self.keys, index),
     values |-> vec_remove(self.values, index),
     children |->
         [self.children EXCEPT
             ![index + 1] = [keys |-> Append(@.keys, self.keys[index + 1])
                                      \o right_sibling.keys,
                             values |-> Append(@.values, self.values[index + 1])
                                        \o right_sibling.values,
                             children |-> @.children \o right_sibling.children],
             ![index + 2] = Node_new]]

\* the node after the delete in its child at index, and the value returned
InChild(self, index, deleted) ==
    [node |-> [self EXCEPT !.children[index + 1] = deleted.node], value |-> deleted.value]

\* Node::delete: the node after the call and the value returned
RECURSIVE Node_delete(_, _, _)
Node_delete(self, key, pick) ==
    LET found == binary_search(self.keys, key, pick)
        index == found.index
    IN
    IF found.ok
    THEN IF self.children = <<>>
         THEN [node |-> [self EXCEPT !.keys = vec_remove(@, index),
                                     !.values = vec_remove(@, index)],
               value |-> Some(self.values[index + 1])]
         ELSE IF Len(self.children[index + 1].keys) >= B
         THEN LET pred == find_predecessor(self.children[index + 1])
                  replaced == [self EXCEPT !.keys[index + 1] = pred[1],
                                           !.values[index + 1] = pred[2]]
              IN  InChild(replaced, index,
                          Node_delete(replaced.children[index + 1], pred[1], pick))
         ELSE IF Len(self.children[index + 2].keys) >= B
         THEN LET succ == find_successor(self.children[index + 2])
                  replaced == [self EXCEPT !.keys[index + 1] = succ[1],
                                           !.values[index + 1] = succ[2]]
              IN  InChild(replaced, index + 1,
                          Node_delete(replaced.children[index + 2], succ[1], pick))
         ELSE LET merged == merge_with_left(self, index + 1)
                  removed == [merged EXCEPT !.children = vec_remove(@, index + 1)]
              IN  InChild(removed, index,
                          Node_delete(removed.children[index + 1], key, pick))
    ELSE IF self.children = <<>> THEN [node |-> self, value |-> None]
    ELSE IF Len(self.children[index + 1].keys) < B
    THEN IF index > 0 /\ Len(self.children[index].keys) >= B
         THEN LET borrowed == borrow_from_left(self, index)
                  moved == [borrowed EXCEPT
                               !.keys = vec_remove(@, index),
                               !.values = vec_remove(@, index),
                               !.children[index + 1] =
                                   [@ EXCEPT !.keys = <<borrowed.keys[index + 1]>> \o @,
                                             !.values = <<borrowed.values[index + 1]>> \o @]]
              IN  InChild(moved, index, Node_delete(moved.children[index + 1], key, pick))
         ELSE IF index < Len(self.children) - 1 /\ Len(self.children[index + 2].keys) >= B
         THEN LET borrowed == borrow_from_right(self, index)
                  moved == [borrowed EXCEPT
                               !.keys = vec_remove(@, index + 1),
                               !.values = vec_remove(@, index + 1),
                               !.children[index + 1] =
                                   [@ EXCEPT !.keys = Append(@, borrowed.keys[index + 2]),
                                             !.values = Append(@, borrowed.values[index + 2])]]
              IN  InChild(moved, index, Node_delete(moved.children[index + 1], key, pick))
         ELSE IF index > 0
         THEN LET merged == merge_with_left(self, index)
                  removed == [merged EXCEPT !.children = vec_remove(@, index)]
              IN  InChild(removed, index - 1, Node_delete(removed.children[index], key, pick))
         ELSE LET merged == merge_with_right(self, index)
                  removed == [merged EXCEPT !.children = vec_remove(@, index + 1)]
              IN  InChild(removed, index, Node_delete(removed.children[index + 1], key, pick))
    ELSE InChild(self, index, Node_delete(self.children[index + 1], key, pick))

\* BTree::delete: the tree after the call and the value returned
BTree_delete(tree, key, pick) ==
    IF tree.root # None
    THEN LET deleted == Node_delete(tree.root[1], key, pick) IN
         [tree |-> IF deleted.node.keys = <<>>
                   THEN IF deleted.node.children = <<>> THEN [root |-> None]
                        ELSE [root |-> Some(deleted.node.children[1])]
                   ELSE [root |-> Some(deleted.node)],
          value |-> deleted.value]
    ELSE [tree |-> tree, value |-> None]

----------------------------------------------------------------------------
(* SpecBTree: a B-tree built by inserts in ascending or descending order,   *)
(* then any inserts and deletes.                                            *)

\* inserts that build the tree of Init
MaxSeed == 20
\* calls of insert and delete after them
MaxBTreeOps == 3

\* the value inserted with a key
ValueOf(key) == <<key>>

\* the tree after the inserts of the keys of ks, in that order
RECURSIVE InsertAll(_, _)
InsertAll(tree, ks) ==
    IF ks = <<>> THEN tree
    ELSE InsertAll(BTree_insert(tree, ks[1], ValueOf(ks[1]), "first"), Tail(ks))

Ascending(n) == [i \in 1..n |-> 2 * i]
Descending(n) == [i \in 1..n |-> 2 * (n + 1 - i)]

InitBTree ==
    /\ \E n \in 0..MaxSeed : \E ks \in {Ascending(n), Descending(n)} :
          /\ btree = InsertAll(NoBTree, ks)
          /\ bt_hist = [NoBtHist EXCEPT !.present = {ks[i] : i \in 1..n},
                                        !.top = 2 * n + 1]
    /\ pages = <<>>
    /\ next_free_page = 1
    /\ root = NoRoot
    /\ wtxn = NoWriteTransaction
    /\ rtxn = NoReadTransaction
    /\ rtxn_view = ReaderView(NoReadTransaction)
    /\ committed = [tk \in Tables \X Keys |-> None]
    /\ last = NoLast
    /\ commits = 0
    /\ iter = NoIter
    /\ yielded = <<>>
    /\ FileAtRest /\ pm = NoPm /\ oplog = <<>> /\ dir = NoDir /\ leaf = NoLeaf

btFrame == <<dbVars, txnVars, iterVars, fileVars, pm, oplog, dir, leaf>>

\* some node of the subtree holds a key twice
RECURSIVE HasRepeatedKey(_)
HasRepeatedKey(node) ==
    \/ \E i, j \in 1..Len(node.keys) : i # j /\ node.keys[i] = node.keys[j]
    \/ \E c \in 1..Len(node.children) : HasRepeatedKey(node.children[c])

\* the matches binary_search may return in the tree
Picks(tree) ==
    IF tree.root # None /\ HasRepeatedKey(tree.root[1]) THEN {"first", "last"}
    ELSE {"first"}

\* BTree::insert
BTInsert ==
    /\ bt_hist.ops < MaxBTreeOps
    /\ \E key \in 1..bt_hist.top :
          /\ \E pick \in Picks(btree) :
                btree' = BTree_insert(btree, key, ValueOf(key), pick)
          /\ bt_hist' = [bt_hist EXCEPT !.present = @ \cup {key},
                                        !.fresh = @ /\ key \notin bt_hist.present,
                                        !.ops = @ + 1]
    /\ UNCHANGED btFrame

\* BTree::delete
BTDelete ==
    /\ bt_hist.ops < MaxBTreeOps
    /\ \E key \in 1..bt_hist.top :
          /\ \E pick \in Picks(btree) : btree' = BTree_delete(btree, key, pick).tree
          /\ bt_hist' = [bt_hist EXCEPT !.present = @ \ {key}, !.ops = @ + 1,
                                        !.deleted = TRUE]
    /\ UNCHANGED btFrame

NextBTree ==
    \/ BTInsert
    \/ BTDelete

SpecBTree == InitBTree /\ [][NextBTree]_vars

\* the keys of S in increasing order
RECURSIVE Sorted(_)
Sorted(S) ==
    IF S = {} THEN <<>>
    ELSE LET m == CHOOSE m \in S : \A x \in S : m <= x IN <<m>> \o Sorted(S \ {m})

\* C18: after inserts of distinct keys and deletes of any of them (the
\* deletes after the inserts, or among them), traverse returns exactly the
\* pairs of the keys that remain, in strictly increasing key order.
C18_TraverseSortedRemaining ==
    bt_hist.fresh =>
        LET remaining == Sorted(bt_hist.present) IN
        BTree_traverse(btree) =
            [i \in 1..Len(remaining) |-> <<remaining[i], ValueOf(remaining[i])>>]

\* inserts of distinct keys built a tree of three levels, and a delete of a
\* key that was in it followed
C18_Witness ==
    /\ bt_hist.fresh
    /\ bt_hist.deleted
    /\ bt_hist.ops = MaxBTreeOps
    /\ Cardinality(bt_hist.present) >= 6 * B
    /\ btree.root # None
    /\ btree.root[1].children # <<>>
    /\ btree.root[1].children[1].children # <<>>

\* C19: after any inserts and deletes, search(k) returns the value inserted
\* for k when k was inserted and not deleted since, and None otherwise.
C19_SearchMatchesInsertedMinusDeleted ==
    \A key \in 1..bt_hist.top : \A pick \in Picks(btree) :
        BTree_search(btree, key, pick) =
            IF key \in bt_hist.present THEN Some(ValueOf(key)) ELSE None

\* C19 when every insert is of a key that is not in the tree
C19_SearchAfterFreshInserts ==
    bt_hist.fresh =>
        \A key \in 1..bt_hist.top :
            BTree_search(btree, key, "first") =
                IF key \in bt_hist.present THEN Some(ValueOf(key)) ELSE None

\* the depths of the leaves of the subtree
RECURSIVE LeafDepths(_)
LeafDepths(node) ==
    IF node.children = <<>> THEN {0}
    ELSE UNION {{d + 1 : d \in LeafDepths(node.children[c])} : c \in 1..Len(node.children)}

\* every node of the subtree is well formed; least is the fewest keys it may
\* have itself
RECURSIVE WellFormed(_, _)
WellFormed(node, least) ==
    /\ Len(node.keys) >= least
    /\ Len(node.keys) <= 2 * B - 1
    /\ node.children # <<>> => Len(node.children) = Len(node.keys) + 1
    /\ \A i \in 1..(Len(node.keys) - 1) : node.keys[i] < node.keys[i + 1]
    /\ \A c \in 1..Len(node.children) : WellFormed(node.children[c], B - 1)

\* C20: after every insert and every delete, every node but the root has
\* between B-1 and 2B-1 keys, the root has at most 2B-1, every internal node
\* has one more child than keys, the keys of a node are strictly increasing,
\* and all leaves are at the same depth.
C20_StructuralInvariant ==
    btree.root # None =>
        /\ WellFormed(btree.root[1], 0)
        /\ Cardinality(LeafDepths(btree.root[1])) = 1

\* C20 when every insert is of a key that is not in the tree
C20_StructureAfterFreshInserts ==
    (bt_hist.fresh /\ btree.root # None) =>
        /\ WellFormed(btree.root[1], 0)
        /\ Cardinality(LeafDepths(btree.root[1])) = 1

\* a value no key was inserted with
OtherValue == <<0>>

\* C21: insert(k, v') of a key k that is in the tree changes nothing of the
\* contents, whatever is split on the way down: search(k) returns the value
\* k was inserted with and traverse returns the sequence it returned before,
\* k in it once.
C21_InsertOfPresentKeyIsNoOp ==
    bt_hist.fresh =>
        \A key \in bt_hist.present :
            LET after == BTree_insert(btree, key, OtherValue, "first") IN
            /\ BTree_search(after, key, "first") = Some(ValueOf(key))
            /\ BTree_traverse(after) = BTree_traverse(btree)
            /\ Cardinality({i \in 1..Len(BTree_traverse(after)) :
                               BTree_traverse(after)[i][1] = key}) = 1

\* C21 for the keys of the root
C21_InsertOfKeyInRootIsNoOp ==
    (bt_hist.fresh /\ btree.root # None) =>
        \A i \in 1..Len(btree.root[1].keys) :
            BTree_traverse(BTree_insert(btree, btree.root[1].keys[i], OtherValue, "first"))
                = BTree_traverse(btree)

----------------------------------------------------------------------------
(* SpecDir: Database::open_table on an open database, with any names.       *)

\* bytes of the longest table name
MaxNameLen == 2

Names == UNION {[1..n -> Bytes] : n \in 0..MaxNameLen}

\* the id of name in the directory, or 0
table_id_of(names, name) ==
    IF \E i \in 1..Len(names) : names[i] = name
    THEN CHOOSE i \in 1..Len(names) : names[i] = name
    ELSE 0

\* Storage::get_or_create_table: the directory is looked up, and a fresh id
\* allocated when the name is not in it
get_or_create_table(names, name) ==
    IF table_id_of(names, name) # 0
    THEN [names |-> names, id |-> table_id_of(names, name)]
    ELSE [names |-> Append(names, name), id |-> Len(names) + 1]

\* Database::open_table: assert!(!name.is_empty()), then get_or_create_table
\* and Table::new
open_table(names, name) ==
    IF name = <<>>
    THEN [names |-> names, result |-> [kind |-> "panic", id |-> 0]]
    ELSE [names |-> get_or_create_table(names, name).names,
          result |-> [kind |-> "ok", id |-> get_or_create_table(names, name).id]]

InitDir ==
    /\ dir = NoDir /\ leaf = NoLeaf
    /\ pages = <<>>
    /\ next_free_page = 1
    /\ root = NoRoot
    /\ wtxn = NoWriteTransaction
    /\ rtxn = NoReadTransaction
    /\ rtxn_view = ReaderView(NoReadTransaction)
    /\ committed = [tk \in Tables \X Keys |-> None]
    /\ last = NoLast
    /\ commits = 0
    /\ iter = NoIter
    /\ yielded = <<>>
    /\ FileAtRest /\ pm = NoPm /\ oplog = <<>> /\ btree = NoBTree /\ bt_hist = NoBtHist

\* Database::open_table
OpenTable(name) ==
    /\ dir' = [names |-> open_table(dir.names, name).names, name |-> name,
               before |-> dir.names, result |-> open_table(dir.names, name).result]
    /\ UNCHANGED <<dbVars, txnVars, iterVars, fileVars, pm, oplog, btree, bt_hist, leaf>>

NextDir == \E name \in Names : OpenTable(name)

SpecDir == InitDir /\ [][NextDir]_vars

\* C22: open_table with an empty name returns an error of kind
\* TableNameEmpty, allocates no table id and leaves the directory as it was.
C22_EmptyNameIsAnError ==
    (dir.result.kind # "none" /\ dir.name = <<>>) =>
        /\ dir.result.kind = "TableNameEmpty"
        /\ dir.names = dir.before

\* C22 but for the kind of the failure: a call with an empty name leaves the
\* directory as it was and hands out no table
C22_EmptyNameChangesNothing ==
    (dir.result.kind # "none" /\ dir.name = <<>>) =>
        /\ dir.result.kind # "ok"
        /\ dir.names = dir.before

----------------------------------------------------------------------------
(* Database::open, under SpecFile.                                           *)

\* Database::open has returned and nothing was committed since
JustOpened == pc.at = "idle" /\ ~pc.written

\* the file held bytes other than zeros, and no magic number
ForeignFile(d) == ~d.magic /\ d # NoDisk

\* C23, for the files open accepts: a file with nothing in it is initialized
\* to the empty database, a file with the magic number is opened with its
\* root and its next free page.
C23_OpensOrInitializes ==
    JustOpened =>
        /\ hdr.magic
        /\ pc.opened.magic =>
              /\ root = pc.opened.root
              /\ next_free_page = pc.opened.next_free
              /\ pages = SubSeq(pc.opened.pages, 1, pc.opened.next_free - 1)
        /\ pc.opened = NoDisk =>
              /\ root = NoRoot
              /\ next_free_page = 1
              /\ pages = <<>>

\* C23: open initializes an absent or empty file, opens a file that has the
\* magic number, and for any other file returns an error instead of
\* initializing over its contents: it goes no further than the check of the
\* magic number and stores nothing.
C23_OpenRejectsForeignFile ==
    /\ C23_OpensOrInitializes
    /\ (pc.at # "closed" /\ ForeignFile(pc.opened)) =>
          /\ pc.at = "init_check"
          /\ hdr = [magic |-> FALSE, next_free |-> pc.opened.next_free]
          /\ root = pc.opened.root

----------------------------------------------------------------------------
(* SpecLeaf: the bytes LeafBuilder stores when Node::to_bytes writes a leaf. *)
(* A page is a slice of LeafPageSize bytes of the mapping; a store through  *)
(* a range that ends behind the slice panics (Rust's bounds check).         *)

\* lengths of the values written
ValueLens == {0, 1, 22, 23, 38, 39, 40}

LeafValues == {[i \in 1..n |-> 1] : n \in ValueLens}

\* u64::to_be_bytes, of a number below 256 ^ 2
to_be_bytes(n) ==
    [i \in 1..U64Len |-> IF i = U64Len THEN n % 256
                         ELSE IF i = U64Len - 1 THEN n \div 256 ELSE 0]

\* u64::from_be_bytes of the bytes mem[at .. at + 8] (at counts from 0)
RECURSIVE from_be_bytes(_, _, _)
from_be_bytes(mem, at, n) ==
    IF n = 0 THEN 0 ELSE 256 * from_be_bytes(mem, at, n - 1) + mem[at + n]

\* raw[from..to].copy_from_slice(src), raw being the slice of the page that
\* starts at base: the store, or a panic when the range ends behind the page
copy_from_slice(w, base, from, to, src) ==
    IF ~w.ok THEN w
    ELSE IF base + to > LeafPageSize THEN [ok |-> FALSE, mem |-> w.mem]
    ELSE [ok |-> TRUE,
          mem |-> [i \in 1..Len(w.mem) |->
                      IF i > base + from /\ i <= base + to THEN src[i - base - from]
                      ELSE w.mem[i]]]

\* EntryAccessor::key_len
EntryAccessor_key_len(mem, base) == from_be_bytes(mem, base, U64Len)

\* EntryAccessor::value_offset
EntryAccessor_value_offset(mem, base) == 16 + EntryAccessor_key_len(mem, base) + 8

\* EntryAccessor::value_len
EntryAccessor_value_len(mem, base) ==
    from_be_bytes(mem, base + 16 + EntryAccessor_key_len(mem, base), U64Len)

\* EntryAccessor::raw_len
EntryAccessor_raw_len(mem, base) ==
    16 + EntryAccessor_key_len(mem, base) + 8 + EntryAccessor_value_len(mem, base)

\* EntryMutator::write_table_id
EntryMutator_write_table_id(w, base, table_id) ==
    copy_from_slice(w, base, 8, 16, to_be_bytes(table_id))

\* EntryMutator::write_key
EntryMutator_write_key(w, base, key) ==
    copy_from_slice(copy_from_slice(w, base, 0, 8, to_be_bytes(Len(key))),
                    base, 16, 16 + Len(key), key)

\* EntryMutator::write_value
EntryMutator_write_value(w, base, value) ==
    IF ~w.ok THEN w
    ELSE LET value_offset == EntryAccessor_value_offset(w.mem, base) IN
         copy_from_slice(
             copy_from_slice(w, base, value_offset - 8, value_offset,
                             to_be_bytes(Len(value))),
             base, value_offset, value_offset + Len(value), value)

\* LeafBuilder::new
LeafBuilder_new(w) == copy_from_slice(w, 0, 0, 1, <<LEAF>>)

\* LeafBuilder::write_lesser
LeafBuilder_write_lesser(w, e) ==
    EntryMutator_write_value(
        EntryMutator_write_key(EntryMutator_write_table_id(w, 1, e.table_id), 1, e.key),
        1, e.value)

\* LeafBuilder::write_greater: the entry starts behind the lesser one
LeafBuilder_write_greater(w, entry) ==
    IF ~w.ok THEN w
    ELSE LET offset == 1 + EntryAccessor_raw_len(w.mem, 1) IN
         IF offset > LeafPageSize THEN [ok |-> FALSE, mem |-> w.mem]
         ELSE IF entry # None
         THEN EntryMutator_write_value(
                  EntryMutator_write_key(
                      EntryMutator_write_table_id(w, offset, entry[1].table_id),
                      offset, entry[1].key),
                  offset, entry[1].value)
         ELSE EntryMutator_write_key(w, offset, <<>>)

\* Node::to_bytes of a Node::Leaf, on the allocated page
Leaf_to_bytes(mem, left_val, right_val) ==
    LeafBuilder_write_greater(
        LeafBuilder_write_lesser(LeafBuilder_new([ok |-> TRUE, mem |-> mem]), left_val),
        right_val)

\* bytes of the encoding of a leaf: the type byte and the entries, an
\* absent greater entry being a key_len of 0 in 16 bytes
EntryLen(e) == 16 + Len(e.key) + 8 + Len(e.value)
LeafLen(left_val, right_val) ==
    1 + EntryLen(left_val) + (IF right_val = None THEN 16 ELSE EntryLen(right_val[1]))

LeafEntries == {Entry(t, k, v) : t \in Tables, k \in Keys, v \in LeafValues}

InitLeaf ==
    /\ leaf = NoLeaf
    /\ pages = <<>>
    /\ next_free_page = 1
    /\ root = NoRoot
    /\ wtxn = NoWriteTransaction
    /\ rtxn = NoReadTransaction
    /\ rtxn_view = ReaderView(NoReadTransaction)
    /\ committed = [tk \in Tables \X Keys |-> None]
    /\ last = NoLast
    /\ commits = 0
    /\ iter = NoIter
    /\ yielded = <<>>
    /\ FileAtRest /\ pm = NoPm /\ oplog = <<>> /\ btree = NoBTree /\ bt_hist = NoBtHist
    /\ dir = NoDir

\* the first commit, whose tree is one leaf: the leaf is written to the
\* first free page, page 1, and the root is published when the write
\* returned
WriteLeaf(left_val, right_val) ==
    /\ leaf.result = "none"
    /\ right_val # None =>
          TableKeyLess(left_val.table_id, left_val.key,
                       right_val[1].table_id, right_val[1].key)
    /\ LET w == Leaf_to_bytes(leaf.mem, left_val, right_val) IN
       leaf' = [mem |-> w.mem, lesser |-> Some(left_val), greater |-> right_val,
                result |-> IF w.ok THEN "ok" ELSE "panic",
                root |-> IF w.ok THEN 1 ELSE leaf.root]
    /\ UNCHANGED <<dbVars, txnVars, iterVars, fileVars, pm, oplog, btree, bt_hist, dir>>

NextLeaf ==
    \E left_val \in LeafEntries, right_val \in {None} \cup {Some(e) : e \in LeafEntries} :
        WriteLeaf(left_val, right_val)

SpecLeaf == InitLeaf /\ [][NextLeaf]_vars

\* a pair of the leaf written does not fit one page
Oversize ==
    /\ leaf.lesser # None
    /\ \/ 1 + EntryLen(leaf.lesser[1]) > LeafPageSize
       \/ leaf.greater # None /\ 1 + EntryLen(leaf.greater[1]) > LeafPageSize

\* C24: a pair whose encoding does not fit one page is rejected with
\* ValueTooLarge; no byte is stored behind the page, and the published root
\* is the one before.
C24_OversizeIsValueTooLarge ==
    Oversize =>
        /\ leaf.result = "ValueTooLarge"
        /\ \A i \in (LeafPageSize + 1)..Len(leaf.mem) : leaf.mem[i] = 0
        /\ leaf.root = 0

\* C24 but for the kind of the failure: a write that does not fit does not
\* return, stores nothing behind the page and publishes nothing
C24_OversizeStaysInsideThePage ==
    Oversize =>
        /\ leaf.result # "ok"
        /\ \A i \in (LeafPageSize + 1)..Len(leaf.mem) : leaf.mem[i] = 0
        /\ leaf.root = 0

\* a leaf that fits is written and published
C24_FittingLeafIsWritten ==
    (leaf.lesser # None /\ LeafLen(leaf.lesser[1], leaf.greater) <= LeafPageSize) =>
        (leaf.result = "ok" /\ leaf.root = 1)

----------------------------------------------------------------------------
(* The empty database, under Spec.                                           *)

\* the staged maps of one or two inserts
SmallMaps ==
    {MapPut(EmptyMap, k, v) : k \in Keys, v \in Values}
    \cup {MapPut(MapPut(EmptyMap, k1, v1), k2, v2) :
             k1 \in Keys, k2 \in Keys, v1 \in Values, v2 \in Values}

\* C25: a read transaction whose snapshot root is "no root" (a new database,
\* or one every key was removed from) reports len 0 and is_empty, gets no
\* key, and its forward and reversed ranges yield nothing; the pairs of a
\* commit into such a database are readable afterwards.
C25_NoRootReadsEmpty ==
    /\ (rtxn.active /\ rtxn.root_page = NoRoot) =>
          /\ ReadOnlyTransaction_len(rtxn) = 0
          /\ ReadOnlyTransaction_is_empty(rtxn)
          /\ \A k \in Keys : ReadOnlyTransaction_get(rtxn, k) = None
          /\ \A q \in Ranges :
                /\ ReadOnlyTransaction_get_range(rtxn, q) = <<>>
                /\ ReadOnlyTransaction_get_range_reversed(rtxn, q) = <<>>
    /\ root = NoRoot =>
          \A table \in Tables, added \in SmallMaps :
              \A t \in bulk_insert(pages, root, table, added) :
                  /\ t.page # NoRoot
                  /\ \A k \in DOMAIN added :
                        Storage_get(t.pages, table, k, t.page) = Some(added[k])
                  /\ Storage_len(t.pages, table, t.page) = Cardinality(DOMAIN added)

\* a reader of a database whose keys were all removed by a commit
C25_Witness ==
    /\ rtxn.active
    /\ rtxn.root_page = NoRoot
    /\ root = NoRoot
    /\ pages # <<>>
    /\ last.op = "commit_ok"
    /\ last.removed # {}

----------------------------------------------------------------------------
(* Shape of the trees, under SpecRange: the tree of the published root and  *)
(* the trees one or two further tree_insert / tree_delete calls make of it. *)

\* the entries stored in a leaf page, whatever LeafAccessor reads of them
StoredEntries(node) ==
    {node.lesser} \cup (IF node.greater = AbsentEntry THEN {} ELSE {node.greater})

\* the entries stored in the leaves under page
RECURSIVE EntriesUnder(_, _)
EntriesUnder(pgs, page) ==
    IF pgs[page].type = LEAF THEN StoredEntries(pgs[page])
    ELSE EntriesUnder(pgs, pgs[page].lte_page) \cup EntriesUnder(pgs, pgs[page].gt_page)

\* every internal node under page has the entries of its lte_page subtree
\* at or below its pivot and those of its gt_page subtree above it
RECURSIVE SearchOrdered(_, _)
SearchOrdered(pgs, page) ==
    LET node == pgs[page] IN
    node.type = INTERNAL =>
        /\ \A e \in EntriesUnder(pgs, node.lte_page) :
              ~TableKeyLess(node.table_id, node.key, e.table_id, e.key)
        /\ \A e \in EntriesUnder(pgs, node.gt_page) :
              TableKeyLess(node.table_id, node.key, e.table_id, e.key)
        /\ SearchOrdered(pgs, node.lte_page)
        /\ SearchOrdered(pgs, node.gt_page)

\* every leaf under page holds its lesser entry alone or a lesser entry
\* smaller than its greater entry
RECURSIVE LeavesOrdered(_, _)
LeavesOrdered(pgs, page) ==
    LET node == pgs[page] IN
    IF node.type = LEAF
    THEN /\ node.lesser.table_id \in Tables
         /\ node.greater # AbsentEntry =>
               TableKeyLess(node.lesser.table_id, node.lesser.key,
                            node.greater.table_id, node.greater.key)
    ELSE LeavesOrdered(pgs, node.lte_page) /\ LeavesOrdered(pgs, node.gt_page)

\* the trees one tree_insert or tree_delete makes of the tree t
TreeOps(t) ==
    IF t.page = NoRoot THEN {}
    ELSE {tree_insert(t.pages, t.page, table, key, <<1>>) : table \in Tables, key \in Keys}
         \cup {tree_delete(t.pages, t.page, table, key) : table \in Tables, key \in Keys}

\* the published tree and the trees up to two calls away
TreesNear ==
    LET t0 == [pages |-> pages, page |-> root]
        t1 == TreeOps(t0)
    IN  {t0} \cup t1 \cup UNION {TreeOps(t) : t \in t1}

\* C26: in every internal node reachable from a published root, after
\* builds, inserts and deletes, every entry under lte_page is at or below
\* the pivot and every entry under gt_page is above it.
C26_SearchTreeOrdering ==
    iter = NoIter =>
        \A t \in TreesNear : t.page # NoRoot => SearchOrdered(t.pages, t.page)

\* a tree whose root is an internal node with a stale pivot: a delete took
\* the pivot's key out of the tree
C26_Witness ==
    /\ iter = NoIter
    /\ commits = 1
    /\ root # NoRoot
    /\ pages[root].type = INTERNAL
    /\ \A e \in EntriesUnder(pages, root) :
          ~(e.table_id = pages[root].table_id /\ e.key = pages[root].key)

\* C27: every leaf reachable from a published root, after builds, inserts
\* and deletes, holds one or two entries, the lesser one strictly smaller
\* than the greater one when there are two.
C27_LeavesHoldOrderedEntries ==
    iter = NoIter =>
        \A t \in TreesNear : t.page # NoRoot => LeavesOrdered(t.pages, t.page)

\* a tree with a leaf of two entries and a leaf of one, after an insert or
\* a delete
C27_Witness ==
    /\ iter = NoIter
    /\ commits = 1
    /\ root # NoRoot
    /\ pages[root].type = INTERNAL
    /\ \E a, b \in 1..Len(pages) :
          /\ pages[a].type = LEAF /\ pages[a].greater # AbsentEntry
          /\ pages[b].type = LEAF /\ pages[b].greater = AbsentEntry
          /\ {a, b} \subseteq {pages[root].lte_page, pages[root].gt_page}

\* the published tree and the trees one call away
TreesNext == {[pages |-> pages, page |-> root]} \cup TreeOps([pages |-> pages, page |-> root])

\* (table, key) is stored in a leaf under page
StoredUnder(pgs, page, table, key) ==
    \E e \in EntriesUnder(pgs, page) : e.table_id = table /\ e.key = key

\* C28: tree_delete of a (table, key) that is not in the tree returns the
\* page it was given, allocates no page and writes no page, whatever the
\* depth of the tree.
C28_DeleteOfAbsentKeyChangesNothing ==
    iter = NoIter =>
        \A t \in TreesNext : t.page # NoRoot =>
            \A table \in Tables, key \in Keys :
                ~StoredUnder(t.pages, t.page, table, key) =>
                    tree_delete(t.pages, t.page, table, key) = t

\* a tree of internal nodes, after an insert or a delete, that lacks a key
\* on each side of its root
C28_Witness ==
    /\ iter = NoIter
    /\ commits = 1
    /\ root # NoRoot
    /\ pages[root].type = INTERNAL
    /\ \E key \in Keys :
          /\ ~StoredUnder(pages, root, 1, key)
          /\ ~TableKeyLess(pages[root].table_id, pages[root].key, 1, key)
    /\ \E key \in Keys :
          /\ ~StoredUnder(pages, root, 2, key)
          /\ TableKeyLess(pages[root].table_id, pages[root].key, 2, key)

\* tree_delete took (table, key) out of the tree t, whose root is an
\* internal node
Removes(t, table, key) ==
    /\ t.page # NoRoot
    /\ t.pages[t.page].type = INTERNAL
    /\ tree_delete(t.pages, t.page, table, key) # t

RECURSIVE InsertRewritesPath(_, _, _, _, _, _)
InsertRewritesPath(pgs, page, rp, rpage, table, key) ==
    LET node == pgs[page] IN
    node.type = INTERNAL =>
        /\ rpage > Len(pgs)
        /\ rp[rpage].type = INTERNAL
        /\ rp[rpage].table_id = node.table_id
        /\ rp[rpage].key = node.key
        /\ IF ~TableKeyLess(node.table_id, node.key, table, key)
           THEN /\ rp[rpage].gt_page = node.gt_page
                /\ rp[rpage].lte_page > Len(pgs)
                /\ InsertRewritesPath(pgs, node.lte_page, rp, rp[rpage].lte_page, table, key)
           ELSE /\ rp[rpage].lte_page = node.lte_page
                /\ rp[rpage].gt_page > Len(pgs)
                /\ InsertRewritesPath(pgs, node.gt_page, rp, rp[rpage].gt_page, table, key)

\* C30: tree_insert at an internal node writes a new internal node with the
\* original pivot, replaces the pointer of the child it recursed into (the
\* left one when the key is at or below the pivot) and keeps the other
\* pointer, so that subtree is shared with the tree before.
C30_InsertSharesOtherSubtree ==
    iter = NoIter =>
        \A t \in TreesNext : t.page # NoRoot =>
            \A table \in Tables, key \in Keys, value \in Values :
                LET r == tree_insert(t.pages, t.page, table, key, value) IN
                /\ IsPrefix(t.pages, r.pages)
                /\ InsertRewritesPath(t.pages, t.page, r.pages, r.page, table, key)

\* a published insert went through an internal root: the new root has the
\* pivot of an older internal page and shares one child with it
C30_Witness ==
    /\ iter = NoIter
    /\ commits = 1
    /\ root # NoRoot
    /\ pages[root].type = INTERNAL
    /\ \E old \in 1..(root - 1) :
          /\ pages[old].type = INTERNAL
          /\ pages[old].table_id = pages[root].table_id
          /\ pages[old].key = pages[root].key
          /\ \/ pages[old].lte_page = pages[root].lte_page /\ pages[root].gt_page > old
             \/ pages[old].gt_page = pages[root].gt_page /\ pages[root].lte_page > old

----------------------------------------------------------------------------
(* BinarytreeBuilder::build, on the batches of SpecRange.                    *)

\* the entries of the leaves of a node, left to right
RECURSIVE NodeEntries(_)
NodeEntries(node) ==
    IF node.kind = "Leaf" THEN <<node.left>> \o node.right
    ELSE NodeEntries(node.left) \o NodeEntries(node.right)

\* the leaves of a node, left to right
RECURSIVE NodeLeaves(_)
NodeLeaves(node) ==
    IF node.kind = "Leaf" THEN <<node>>
    ELSE NodeLeaves(node.left) \o NodeLeaves(node.right)

\* the pivot of every internal node is the key of the last entry under its
\* left child
RECURSIVE PivotsAreLeftMax(_)
PivotsAreLeftMax(node) ==
    node.kind = "Internal" =>
        LET l == NodeEntries(node.left) IN
        /\ node.table_id = l[Len(l)].table_id
        /\ node.key = l[Len(l)].key
        /\ PivotsAreLeftMax(node.left)
        /\ PivotsAreLeftMax(node.right)

\* the batch of the (table, key) pairs S, added in the order o
BatchOf(o) == [i \in 1..Len(o) |-> Entry(o[i][1], o[i][2], <<0>>)]

\* node is the tree build is to return for the batch of the pairs S
BuiltFrom(node, S) ==
    LET es == NodeEntries(node)
        ls == NodeLeaves(node)
    IN  /\ node # Panic
        /\ Len(es) = Cardinality(S)
        /\ {<<es[i].table_id, es[i].key>> : i \in 1..Len(es)} = S
        /\ \A i \in 1..(Len(es) - 1) :
              TableKeyLess(es[i].table_id, es[i].key, es[i + 1].table_id, es[i + 1].key)
        /\ \A i \in 1..(Len(ls) - 1) : ls[i].right # None
        /\ PivotsAreLeftMax(node)
        /\ Cardinality(S) = 3 =>
              /\ node = Internal(Leaf(es[1], Some(es[2])), es[2].table_id, es[2].key,
                                 Leaf(es[3], None))

\* the pairs the initial tree was built from
BuiltPairs == {tk \in Tables \X Keys : committed[tk] # None}

\* C31: build, for a non-empty batch of distinct (table, key) pairs added
\* in any order, returns a tree whose leaf entries in order are the batch
\* sorted, whose leaves but the last hold two entries and whose pivots are
\* the maximum key of the left subtree; three entries give
\* Internal(Leaf(e1, e2), key(e2), Leaf(e3)).
C31_BuildSortsAndFills ==
    (commits = 0 /\ iter = NoIter /\ BuiltPairs # {}) =>
        /\ \A o \in Orders(BuiltPairs) :
              /\ BuiltFrom(build(BatchOf(o)), BuiltPairs)
              /\ to_bytes(build(BatchOf(o)), <<>>) = [pages |-> pages, page |-> root]
        /\ Cardinality(BuiltPairs) = MaxEntries =>
              \A T \in SUBSET (Tables \X Keys) :
                  BuiltPairs \subseteq T =>
                      BuiltFrom(build(BatchOf(CHOOSE o \in Orders(T) : TRUE)), T)

\* the tree of three entries, as built
C31_Witness ==
    /\ commits = 0
    /\ iter = NoIter
    /\ Cardinality(BuiltPairs) = 3
    /\ pages[root].type = INTERNAL
    /\ pages[pages[root].lte_page].greater # AbsentEntry
    /\ pages[pages[root].gt_page].greater = AbsentEntry

\* the batch of the initial tree with the pair (table, key) added once more,
\* with value
WithDuplicate(table, key, value) ==
    Append(BatchOf(CHOOSE o \in Orders(BuiltPairs) : TRUE), Entry(table, key, value))

\* the pairs of the initial tree below (table, key)
PairsBelow(table, key) ==
    {tk \in BuiltPairs : TableKeyLess(tk[1], tk[2], table, key)}

\* C32: build panics whenever the batch holds two entries with the same
\* (table, key), wherever they fall in the sorted order and whatever
\* their values.
C32_BuildPanicsOnDuplicateKey ==
    (commits = 0 /\ iter = NoIter) =>
        \A tk \in BuiltPairs, value \in Values :
            build(WithDuplicate(tk[1], tk[2], value)) = Panic

\* C32 for the duplicates that fall in one chunk of two: an even number
\* of entries sorts below them
C32_BuildPanicsOnDuplicateInOneChunk ==
    (commits = 0 /\ iter = NoIter) =>
        \A tk \in BuiltPairs, value \in Values :
            Cardinality(PairsBelow(tk[1], tk[2])) % 2 = 0 =>
                build(WithDuplicate(tk[1], tk[2], value)) = Panic

\* a duplicate with an odd number of entries below it is built into two
\* leaves
C32_DuplicateAcrossChunksIsBuilt ==
    (commits = 0 /\ iter = NoIter) =>
        \A tk \in BuiltPairs, value \in Values :
            Cardinality(PairsBelow(tk[1], tk[2])) % 2 = 1 =>
                /\ build(WithDuplicate(tk[1], tk[2], value)) # Panic
                /\ Len(NodeEntries(build(WithDuplicate(tk[1], tk[2], value))))
                      = Cardinality(BuiltPairs) + 1

----------------------------------------------------------------------------
(* Commits and staging, under Spec and SpecTxn.                              *)

\* a write transaction on table with the keys R staged as removes, no insert
RemovesOnly(table, R) ==
    [NoWriteTransaction EXCEPT !.active = TRUE, !.table_id = table, !.removed = R]

RemoveSets == {R \in SUBSET Keys : Cardinality(R) <= MaxStaged}

\* C33: a commit whose added map is empty (removes only, or nothing staged)
\* succeeds: the staged removes are applied and every key that was not
\* removed keeps its committed value.  The commit is the last one made, or
\* one made now.
C33_CommitWithoutInserts ==
    /\ (last.op = "commit_ok" /\ DOMAIN last.added = {}) =>
          /\ \A k \in last.removed : FreshView(last.table_id).get[k] = None
          /\ \A t \in Tables, k \in Keys :
                (t # last.table_id \/ k \notin last.removed) =>
                    FreshView(t).get[k] = committed[<<t, k>>]
    /\ ~wtxn.active =>
          \A table \in Tables, R \in RemoveSets :
              \A c \in CommitTrees(RemovesOnly(table, R)) :
                  /\ \A k \in R : Storage_get(c.pages, table, k, c.page) = None
                  /\ \A t \in Tables, k \in Keys :
                        (t # table \/ k \notin R) =>
                            Storage_get(c.pages, t, k, c.page) = committed[<<t, k>>]

\* C33 with "keeps" read as "is read as before the commit": the removed
\* keys are absent and every other key of every table is read as it was
\* before
C33_CommitWithoutInsertsKeepsReads ==
    ~wtxn.active =>
        \A table \in Tables, R \in RemoveSets :
            \A c \in CommitTrees(RemovesOnly(table, R)) :
                /\ \A k \in R : Storage_get(c.pages, table, k, c.page) = None
                /\ \A t \in Tables, k \in Keys :
                      (t # table \/ k \notin R) =>
                          Storage_get(c.pages, t, k, c.page) = Storage_get(pages, t, k, root)

\* C34: within one write transaction the last staged call on each key
\* decides the committed outcome: after an insert(k, v) or an
\* insert_reserve a read after the commit returns the value, after a
\* remove(k) it returns absent, in whatever order commit applies
\* bulk_insert and the removes.
C34_LastStagedCallDecides ==
    last.op = "commit_ok" =>
        \A key \in Keys :
            LET c == LastCallOn(oplog, key) IN
            c # None =>
                FreshView(last.table_id).get[key] =
                    IF c[1].op = "remove" THEN None ELSE Some(c[1].value)

\* C34 for what is staged: the added map and the removed set follow the
\* last call on each key
C34_StagedFollowsLastCall ==
    wtxn.active =>
        \A key \in Keys :
            LET c == LastCallOn(oplog, key) IN
            /\ c = None => (key \notin DOMAIN wtxn.added /\ key \notin wtxn.removed)
            /\ (c # None /\ c[1].op = "remove") =>
                  (key \notin DOMAIN wtxn.added /\ key \in wtxn.removed)
            /\ (c # None /\ c[1].op # "remove") =>
                  /\ key \in DOMAIN wtxn.added
                  /\ wtxn.added[key] = c[1].value
                  /\ key \notin wtxn.removed

\* C36: in a write transaction, after any calls of insert, insert_reserve
\* and remove, no key is both in the added map and in the removed set.
C36_AddedAndRemovedDisjoint ==
    wtxn.active => DOMAIN wtxn.added \cap wtxn.removed = {}

\* a key was inserted, or reserved, and then removed
C36_Witness ==
    /\ wtxn.active
    /\ Len(oplog) = 2
    /\ oplog[1].key = oplog[2].key
    /\ oplog[1].op # "remove"
    /\ oplog[2].op = "remove"

----------------------------------------------------------------------------
(* Page views: the RefCell around the mmap, and the views the write path
   takes and drops *)

\* the borrow state of PageManager.mmap
NoViews == [shared |-> 0, exclusive |-> 0, panicked |-> FALSE]

\* get_page: self.mmap.borrow() panics while a mutable view is alive
Page_borrow(v) ==
    IF v.exclusive > 0 THEN [v EXCEPT !.panicked = TRUE]
    ELSE [v EXCEPT !.shared = @ + 1]

\* get_page_mut, reached from allocate: self.mmap.borrow_mut() panics
\* while any view is alive
PageMut_borrow(v) ==
    IF v.shared > 0 \/ v.exclusive > 0 THEN [v EXCEPT !.panicked = TRUE]
    ELSE [v EXCEPT !.exclusive = 1]

\* a Page goes out of scope or is dropped: its Ref is released
Page_drop(v) == [v EXCEPT !.shared = @ - 1]

\* a PageMut goes out of scope: its RefMut is released
PageMut_drop(v) == [v EXCEPT !.exclusive = @ - 1]

\* the borrow state after the calls of a trace; nothing runs after a panic
RECURSIVE Borrows(_, _)
Borrows(v, trace) ==
    IF trace = <<>> \/ v.panicked THEN v
    ELSE Borrows(CASE Head(trace) = "get_page" -> Page_borrow(v)
                   [] Head(trace) = "drop(page)" -> Page_drop(v)
                   [] Head(trace) = "allocate" -> PageMut_borrow(v)
                   [] OTHER -> PageMut_drop(v),
                 Tail(trace))

\* the calls of Node::to_bytes on the mmap: children before the node, and
\* each page allocated for a node released at the end of its match arm
RECURSIVE to_bytes_views(_)
to_bytes_views(node) ==
    IF node.kind = "Leaf"
    THEN <<"allocate", "release">>
    ELSE to_bytes_views(node.left) \o to_bytes_views(node.right)
         \o <<"allocate", "release">>

RECURSIVE tree_insert_views(_, _, _, _, _)

\* mutant: the view of an internal page is kept until tree_insert returns
tree_insert_views_keeps_page(pgs, page, table, key, value) ==
    LET node == pgs[page] IN
    IF node.type = LEAF
    THEN LET p1 == <<Entry(table, key, value)>>
             p2 == IF ~SameKey(table, key, lesser(node))
                   THEN Append(p1, lesser(node)) ELSE p1
             p3 == IF greater(node) # None /\ ~SameKey(table, key, greater(node)[1])
                   THEN Append(p2, greater(node)[1]) ELSE p2
         IN  <<"drop(page)">> \o to_bytes_views(build(p3))
    ELSE <<"get_page">>
         \o tree_insert_views(pgs,
                IF TableKeyLeq(table, key, node.table_id, node.key)
                THEN node.lte_page ELSE node.gt_page,
                table, key, value)
         \o <<"allocate", "release", "drop(page)">>

\* the calls of tree_insert on the mmap, entered with the view of page
\* held: the view is dropped before the leaf is rebuilt and before the
\* recursion into the child, whose view is taken for the call
tree_insert_views(pgs, page, table, key, value) ==
    LET node == pgs[page] IN
    IF node.type = LEAF
    THEN LET p1 == <<Entry(table, key, value)>>
             p2 == IF ~SameKey(table, key, lesser(node))
                   THEN Append(p1, lesser(node)) ELSE p1
             p3 == IF greater(node) # None /\ ~SameKey(table, key, greater(node)[1])
                   THEN Append(p2, greater(node)[1]) ELSE p2
         IN  <<"drop(page)">> \o to_bytes_views(build(p3))
    ELSE <<"drop(page)", "get_page">>
         \o tree_insert_views(pgs,
                IF TableKeyLeq(table, key, node.table_id, node.key)
                THEN node.lte_page ELSE node.gt_page,
                table, key, value)
         \o <<"allocate", "release">>

\* the calls of tree_delete on the mmap, entered with the view of page
\* held: a leaf is left with its view dropped at the return or before the
\* remaining entry is written; an internal node drops its view, recurses
\* and allocates only when the child changed and did not become empty
RECURSIVE tree_delete_views(_, _, _, _)
tree_delete_views(pgs, page, table, key) ==
    LET node == pgs[page] IN
    IF node.type = LEAF
    THEN IF greater(node) # None
         THEN IF ~SameKey(table, key, lesser(node)) /\ ~SameKey(table, key, greater(node)[1])
              THEN <<"drop(page)">>
              ELSE IF SameKey(table, key, lesser(node))
                   THEN <<"drop(page)">> \o to_bytes_views(Leaf(greater(node)[1], None))
                   ELSE <<"drop(page)">> \o to_bytes_views(Leaf(lesser(node), None))
         ELSE <<"drop(page)">>
    ELSE LET child == IF TableKeyLeq(table, key, node.table_id, node.key)
                      THEN node.lte_page ELSE node.gt_page
             c == tree_delete(pgs, child, table, key)
         IN  <<"drop(page)", "get_page">>
             \o tree_delete_views(pgs, child, table, key)
             \o IF c.page = NoRoot \/ c.page = child THEN <<>>
                ELSE <<"allocate", "release">>

\* the write path on a tree, called with no view held: the caller takes
\* the view of the root page and hands it to tree_insert or tree_delete
WritePathTraces(t) ==
    {<<"get_page">> \o tree_insert_views(t.pages, t.page, table, key, value) :
        table \in Tables, key \in Keys, value \in Values}
    \cup {<<"get_page">> \o tree_delete_views(t.pages, t.page, table, key) :
             table \in Tables, key \in Keys}
    \cup {to_bytes_views(build(TreeEntries(t.pages, t.page)))}

\* the calls of a trace before its i-th call leave no view alive
NoViewAt(trace, i) == Borrows(NoViews, SubSeq(trace, 1, i - 1)) = NoViews

\* C35: called with no view held, tree_insert, tree_delete and
\* Node::to_bytes never trip the borrow check of the mmap: at every
\* allocate no immutable view and no earlier allocated view is alive, a
\* view is never taken while an allocated view is alive, and every view
\* is released at the end.
C35_WritePathKeepsBorrowDiscipline ==
    iter = NoIter =>
        \A t \in TreesNext : t.page # NoRoot =>
            \A trace \in WritePathTraces(t) :
                /\ ~Borrows(NoViews, trace).panicked
                /\ Borrows(NoViews, trace) = NoViews
                /\ \A i \in 1..Len(trace) :
                      trace[i] = "allocate" => NoViewAt(trace, i)

\* a published tree three pages deep: a write below its root takes two
\* views in turn and allocates more than once
C35_Witness ==
    /\ iter = NoIter
    /\ root # NoRoot
    /\ pages[root].type = INTERNAL
    /\ \E child \in {pages[root].lte_page, pages[root].gt_page} :
          pages[child].type = INTERNAL
    /\ \E trace \in WritePathTraces([pages |-> pages, page |-> root]) :
          /\ Cardinality({i \in 1..Len(trace) : trace[i] = "get_page"}) = 3
          /\ Cardinality({i \in 1..Len(trace) : trace[i] = "allocate"}) >= 3

----------------------------------------------------------------------------
(* Reading a leaf back from its bytes, under SpecLeaf *)

\* the bytes mem[at .. at + n] (at counts from 0)
Slice(mem, at, n) == [i \in 1..n |-> mem[at + i]]

\* EntryAccessor::table_id
EntryAccessor_table_id(mem, base) == from_be_bytes(mem, base + 8, U64Len)

\* EntryAccessor::key
EntryAccessor_key(mem, base) == Slice(mem, base + 16, EntryAccessor_key_len(mem, base))

\* EntryAccessor::value
EntryAccessor_value(mem, base) ==
    Slice(mem, base + EntryAccessor_value_offset(mem, base),
          EntryAccessor_value_len(mem, base))

\* the entry an EntryAccessor at base shows
EntryAt(mem, base) ==
    Entry(EntryAccessor_table_id(mem, base), EntryAccessor_key(mem, base),
          EntryAccessor_value(mem, base))

\* LeafAccessor::lesser
LeafAccessor_lesser(mem) == EntryAt(mem, 1)

\* LeafAccessor::greater: a key_len of 0 behind the lesser entry reads as
\* no greater entry
LeafAccessor_greater(mem) ==
    LET offset == 1 + EntryAccessor_raw_len(mem, 1) IN
    IF EntryAccessor_key_len(mem, offset) = 0 THEN None
    ELSE Some(EntryAt(mem, offset))

\* C37: a leaf written by Node::to_bytes with a lesser entry and an
\* optional greater entry, of any table ids and of keys and values of any
\* length, the empty ones included, is read back with the identical lesser
\* entry, and greater() shows the identical entry exactly when a greater
\* entry was written.
C37_LeafRoundTrip ==
    leaf.result = "ok" =>
        /\ LeafAccessor_lesser(leaf.mem) = leaf.lesser[1]
        /\ LeafAccessor_greater(leaf.mem) = leaf.greater

\* C37 for the leaves whose greater entry, when there is one, has a key
\* that is not empty
C37_LeafRoundTripOfNonEmptyGreaterKey ==
    (leaf.result = "ok" /\ (leaf.greater # None => leaf.greater[1].key # <<>>)) =>
        /\ LeafAccessor_lesser(leaf.mem) = leaf.lesser[1]
        /\ LeafAccessor_greater(leaf.mem) = leaf.greater

\* a greater entry with the empty key is written and reads back as absent
C37_EmptyGreaterKeyReadsAbsent ==
    (leaf.result = "ok" /\ leaf.greater # None /\ leaf.greater[1].key = <<>>) =>
        /\ LeafAccessor_lesser(leaf.mem) = leaf.lesser[1]
        /\ LeafAccessor_greater(leaf.mem) = None

----------------------------------------------------------------------------
(* Termination of range iteration, under SpecRange *)

\* no entry occurs twice in s
NoRepeat(s) == \A i \in 1..Len(s), j \in 1..Len(s) : i # j => s[i] # s[j]

\* the entries stored in the leaves under the published root
StoredInLeaves ==
    IF root = NoRoot THEN {}
    ELSE UNION {{pages[p].lesser} \cup
                (IF pages[p].greater = AbsentEntry THEN {} ELSE {pages[p].greater}) :
                    p \in {q \in 1..Len(pages) : pages[q].type = LEAF}}

\* C38: for any tree, table, range and direction the results of repeated
\* next() calls are finitely many entries and then None forever: every
\* entry yielded is a stored entry of the table, none is yielded twice, so
\* there are at most as many as the tree stores, and once next() has
\* returned None the iterator holds no state and the next call returns
\* None and leaves it so.
C38_IterationTerminates ==
    iter # NoIter =>
        /\ NoRepeat(yielded)
        /\ \A i \in 1..Len(yielded) :
              yielded[i] \in StoredInLeaves /\ yielded[i].table_id = iter.it.table_id
        /\ Len(yielded) <= Len(TreeEntries(pages, root))
        /\ iter.ended =>
              /\ iter.it.last = None
              /\ iter_next(iter.it, pages) = [last |-> None, out |-> None]
        /\ Len(Drain(iter.it, pages)) + Len(yielded) <= Len(TreeEntries(pages, root))

\* an iteration ended at its far bound, with entries of its table left
\* unvisited, after it yielded at least two
C38_Witness ==
    /\ iter # NoIter
    /\ iter.ended
    /\ Len(yielded) >= 2
    /\ \E e \in StoredInLeaves :
          /\ e.table_id = iter.it.table_id
          /\ \A i \in 1..Len(yielded) : yielded[i] # e
          /\ PassedFarBound(iter.it, e)

----------------------------------------------------------------------------
(* The value BTree::delete returns, under SpecBTree *)

\* key is one of the keys of an internal node of the subtree
RECURSIVE InInternalNode(_, _)
InInternalNode(node, key) ==
    /\ node.children # <<>>
    /\ \/ \E i \in 1..Len(node.keys) : node.keys[i] = key
       \/ \E c \in 1..Len(node.children) : InInternalNode(node.children[c], key)

\* C39: delete(k) returns Some(v), v being the value k had immediately
\* before the call, whenever k is present, in a leaf or in an internal
\* node, and None whenever k is absent.
C39_DeleteReturnsValueOfKey ==
    bt_hist.fresh =>
        \A key \in 1..bt_hist.top :
            BTree_delete(btree, key, "first").value =
                IF key \in bt_hist.present THEN Some(ValueOf(key)) ELSE None

\* C39 for the keys that are not in an internal node: the value of a key
\* of a leaf is returned, and None for an absent key
C39_DeleteOfLeafKeyReturnsItsValue ==
    bt_hist.fresh =>
        \A key \in 1..bt_hist.top :
            (btree.root = None \/ ~InInternalNode(btree.root[1], key)) =>
                BTree_delete(btree, key, "first").value =
                    IF key \in bt_hist.present THEN Some(ValueOf(key)) ELSE None

\* delete returns a value exactly when the key is present
C39_DeleteReturnsSomeWhenPresent ==
    bt_hist.fresh =>
        \A key \in 1..bt_hist.top :
            (BTree_delete(btree, key, "first").value # None) <=> key \in bt_hist.present

----------------------------------------------------------------------------
(* The persisted next-free counter and the persisted root, under SpecFile *)

\* the pages reachable from page in the file d
RECURSIVE DiskReachable(_, _)
DiskReachable(d, page) ==
    IF page = NoRoot THEN {}
    ELSE IF page \in 1..Len(d.pages) /\ d.pages[page].type = INTERNAL
    THEN {page} \cup DiskReachable(d, d.pages[page].lte_page)
                \cup DiskReachable(d, d.pages[page].gt_page)
    ELSE {page}

=============================================================================
